---- MODULE Spec2Model ----
(***************************************************************************)
(* A model of probert's two netlink extension modules:                     *)
(*   src/probert/_nl80211module.c   (the Wi-Fi scan/event listener)        *)
(*   src/probert/_rtnetlinkmodule.c (the routing cache listener)           *)
(*                                                                         *)
(* One behaviour follows ONE listener object (variable kind says of which  *)
(* module) from the state after tp_new/tp_init through a bounded number of *)
(* public method calls.  A call is a sequence of steps; pc is the place    *)
(* the C code has reached.  send_and_recv activations are kept on a stack  *)
(* (frames), because event_handler runs a second send_and_recv (the BSS    *)
(* dump) from inside the receive loop of the first.                        *)
(*                                                                         *)
(* libnl and CPython are external: what they do is written where the       *)
(* source calls them, with every outcome their interface allows.           *)
(***************************************************************************)
EXTENDS Integers, Sequences, FiniteSets, TLC

(***************************************************************************)
(* Bounds of the exploration.                                              *)
(***************************************************************************)
MaxCalls == 3   \* public method calls made on the listener
MaxRtCalls == 3 \* the same, on a rtnetlink listener
MaxMsgs == 3    \* netlink messages the kernel sends in answer to one request
MaxBss == 2     \* BSS messages the kernel sends in answer to one scan dump
MaxObjs == 3    \* objects in the rtnetlink caches / in one notification batch

(***************************************************************************)
(* Program constants.                                                      *)
(***************************************************************************)
ENOMEM == 12
NL_SKIP == 1
NL_STOP == 2
NUL == 0

\* Kernel errno values an NLMSG_ERROR may carry (nlmsgerr.error, negative).
KernelErrs == {-16, -19}
\* libnl failures of a receive that hands no message to a callback.
RecvErrs == {-4}

(***************************************************************************)
(* Python exception values.  typ "NULL" is the absent exception; val tells *)
(* instances apart (for an observer's own exception: the call and the      *)
(* invocation that raised it).                                             *)
(***************************************************************************)
NoExc == [typ |-> "NULL", val |-> <<0, 0>>]
Exc(t, a, b) == [typ |-> t, val |-> <<a, b>>]

(***************************************************************************)
(* strncmp(s1, s2, n) of the C library on byte sequences (1-based here):   *)
(* compares at most n bytes and stops after a NUL that both strings share. *)
(* s2 is a NUL-terminated literal.                                         *)
(***************************************************************************)
RECURSIVE strncmp_from(_, _, _, _)
strncmp_from(s1, s2, i, n) ==
  IF i > n THEN 0
  ELSE IF s1[i] # s2[i] THEN s1[i] - s2[i]
  ELSE IF s1[i] = NUL THEN 0
  ELSE strncmp_from(s1, s2, i + 1, n)

strncmp(s1, s2, n) == strncmp_from(s1, s2, 1, n)

\* The C string literals "scan" and "mlme" (ASCII, with their terminator).
STR_scan == <<115, 99, 97, 110, NUL>>
STR_mlme == <<109, 108, 109, 101, NUL>>

(***************************************************************************)
(* family_handler: the valid-message callback of the CTRL_CMD_GETFAMILY    *)
(* request.  groups is the reply's CTRL_ATTR_MCAST_GROUPS: has says        *)
(* whether the attribute is there, list holds its nested entries           *)
(* [hasName, name, hasId, id]; name is the payload of                      *)
(* CTRL_ATTR_MCAST_GRP_NAME and nla_len its length.                        *)
(***************************************************************************)
nla_len(payload) == Len(payload)

MatchesScan(name) == strncmp(name, STR_scan, nla_len(name)) = 0
MatchesMlme(name) == strncmp(name, STR_mlme, nla_len(name)) = 0

family_entry(res, e) ==
  IF ~e.hasName \/ ~e.hasId THEN res
  ELSE LET r1 == IF MatchesScan(e.name) THEN [res EXCEPT !.scan_id = e.id] ELSE res
       IN IF MatchesMlme(e.name) THEN [r1 EXCEPT !.mlme_id = e.id] ELSE r1

RECURSIVE family_fold(_, _, _)
family_fold(res, entries, i) ==
  IF i > Len(entries) THEN res
  ELSE family_fold(family_entry(res, entries[i]), entries, i + 1)

family_handler(res, groups) ==
  IF ~groups.has THEN res ELSE family_fold(res, groups.list, 1)

(***************************************************************************)
(* Netlink messages as the callbacks see them.                             *)
(*   type     "VALID" | "ACK" | "DONE" | "ERROR"                           *)
(*   cmd      genlmsghdr.cmd of a VALID message (the enumerator's name)    *)
(*   ifindex  NL80211_ATTR_IFINDEX, -1 when the attribute is absent        *)
(*   code     nlmsgerr.error of an ERROR message                           *)
(*   groups   CTRL_ATTR_MCAST_GROUPS of a GETFAMILY reply                  *)
(*   bss      NL80211_ATTR_BSS of a scan-dump reply                        *)
(***************************************************************************)
Msg(t, c, i, e, g, b) ==
  [type |-> t, cmd |-> c, ifindex |-> i, code |-> e, groups |-> g, bss |-> b]

Grp(n, i) == [hasName |-> TRUE, name |-> n, hasId |-> TRUE, id |-> i]
Groups(l) == [has |-> TRUE, list |-> l]
NoGroups == [has |-> FALSE, list |-> <<>>]

\* What the kernel may answer to CTRL_CMD_GETFAMILY "nl80211".
FamilyReplies ==
  { NoGroups,
    Groups(<<Grp(STR_scan, 5), Grp(STR_mlme, 6)>>),
    Groups(<<Grp(STR_scan, 5)>>),
    Groups(<<Grp(<<99, 111, 110, 102, 105, 103, NUL>>, 4)>>) }

\* Interface indexes carried by events; -1 is "no NL80211_ATTR_IFINDEX".
IfIndexes == {-1, 1}

EventCmds ==
  {"NL80211_CMD_NEW_SCAN_RESULTS", "NL80211_CMD_ASSOCIATE",
   "NL80211_CMD_TRIGGER_SCAN"}

\* One BSS of a scan dump: its status attribute and its information
\* elements (a byte sequence: id, length, payload, ...).
Bss(hs, st, hi, ie) ==
  [present |-> TRUE, hasStatus |-> hs, status |-> st, hasIes |-> hi, ies |-> ie]
NoBss ==
  [present |-> FALSE, hasStatus |-> FALSE, status |-> 0, hasIes |-> FALSE, ies |-> <<>>]

NoMsg == Msg("NONE", "", -1, 0, NoGroups, NoBss)

BssEntries ==
  { Bss(TRUE, 1, TRUE, <<0, 2, 104, 105>>),
    Bss(FALSE, 0, TRUE, <<0, 1, 120, 1, 0>>) }

ValidMsgs(req) ==
  CASE req = "GETFAMILY" ->
         {Msg("VALID", "CTRL_CMD_NEWFAMILY", -1, 0, g, NoBss) : g \in FamilyReplies}
    [] req = "GET_INTERFACE" ->
         {Msg("VALID", "NL80211_CMD_NEW_INTERFACE", i, 0, NoGroups, NoBss) :
            i \in IfIndexes}
    [] req = "EVENTS" ->
         {Msg("VALID", c, i, 0, NoGroups, NoBss) : c \in EventCmds, i \in IfIndexes}
    [] req = "GET_SCAN" ->
         {Msg("VALID", "NL80211_CMD_NEW_SCAN_RESULTS", 1, 0, NoGroups, b) :
            b \in BssEntries}
    [] OTHER -> {}

ErrorMsgs == {Msg("ERROR", "", -1, e, NoGroups, NoBss) : e \in KernelErrs}
AckMsg == Msg("ACK", "", -1, 0, NoGroups, NoBss)
DoneMsg == Msg("DONE", "", -1, 0, NoGroups, NoBss)

\* The messages the kernel may place next in a datagram answering req.
\* NLMSG_DONE closes the datagram that carries it (multipart framing), so it
\* is offered only as a datagram's last message.
NextMsgs(req, last) ==
  ValidMsgs(req) \cup ErrorMsgs
    \cup (IF req \in {"GETFAMILY", "TRIGGER_SCAN"} THEN {AckMsg} ELSE {})
    \cup (IF req \in {"GET_INTERFACE", "GET_SCAN"} /\ last THEN {DoneMsg} ELSE {})

(***************************************************************************)
(* The state.                                                              *)
(***************************************************************************)
VARIABLES
  kind,        \* "nl80211" or "rtnetlink": the module this listener is of
  observer,    \* listener->observer: "None" or "obs"
  exc,         \* listener->exc_typ/exc_val/exc_tb, the fault slot
  lerr,        \* listener->err (nl80211 only)
  nl80211_id,  \* listener->nl80211_id
  sock,        \* the listener's own sockets: genl_sock, event_sock
  pyerr,       \* CPython's error indicator of the calling thread
  pc,          \* where the running call is; "idle" between calls
  frames,      \* stack of send_and_recv / nl_recvmsgs activations
  sret,        \* the activation that returned last, until its caller reads it
  ids,         \* listener_start's local struct nl80211_multicast_ids
  scan_p,      \* dump_scan_results' struct scan_handler_params p
  call,        \* the running call: its name and what it has done so far
  ret,         \* the call that returned last: result, error indicator, history
  ncalls,      \* calls started so far
  rt,          \* rtnetlink: the cache manager's caches and pending work
  fam,         \* the family_handler run of SpecFamily
  loc          \* the locals of a function that is run on its own

vars == <<kind, observer, exc, lerr, nl80211_id, sock, pyerr, pc, frames, sret,
          ids, scan_p, call, ret, ncalls, rt, fam, loc>>

\* Values a never-initialised int on listener_start's stack may hold.
GarbageIds == {0, 7}

Ids(m, s) == [mlme_id |-> m, scan_id |-> s]
NoIds == Ids(0, 0)

(***************************************************************************)
(* Activations of the receive machinery.                                   *)
(*   req      the request it serves ("EVENTS": data_ready's single         *)
(*            nl_recvmsgs_default on the event socket)                     *)
(*   sk       the socket it sends and receives on                          *)
(*   handler  the NL_CB_VALID callback: "NULL", "family", "event", "scan"  *)
(*   cont     where the caller resumes                                     *)
(*   err      send_and_recv's local err                                    *)
(*   left     messages of the current datagram not yet looked at           *)
(*   cur      the VALID message whose handler is waiting for a BSS dump    *)
(* and, recorded for the properties: sent (nl_send_auto succeeded),        *)
(* settled/code (the control message that settled the request), unhandled  *)
(* (a VALID message was not handed to the handler), late (a message was    *)
(* handed over after the request settled), lastRecv, and budget (messages  *)
(* the kernel may still send).                                             *)
(***************************************************************************)
\* dump_scan_results' local genl_sock, allocated and freed by each dump.
dump_sock_shared == "genl_sock"
dump_sock == "dump_sock"

\* The socket each request is sent and answered on: the sock argument of
\* its send_and_recv (of nl_recvmsgs_default for "EVENTS").
SockOf(rq) ==
  CASE rq \in {"GETFAMILY", "GET_INTERFACE"} -> "genl_sock"
    [] rq = "EVENTS" -> "event_sock"
    [] rq = "GET_SCAN" -> dump_sock
    [] rq = "TRIGGER_SCAN" -> "trigger_sock"
    [] OTHER -> "none"

Frame(rq, h, c) ==
  [req |-> rq, sk |-> SockOf(rq), handler |-> h, cont |-> c, err |-> -ENOMEM, left |-> 0,
   cur |-> NoMsg, sent |-> FALSE, settled |-> "no", code |-> 0,
   unhandled |-> FALSE, late |-> FALSE, lastRecv |-> "none",
   budget |-> IF rq = "GET_SCAN" THEN MaxBss ELSE MaxMsgs]

NoFrame == Frame("NONE", "NULL", "idle")

Top == frames[Len(frames)]
Push(f) == Append(frames, f)
Pop == SubSeq(frames, 1, Len(frames) - 1)
SetTop(f) == [frames EXCEPT ![Len(frames)] = f]

\* The running call's record, and the record of a finished call.
\*   n           the call's number
\*   log         one entry per observer invocation: the exception it raised
\*   fault       the exception the call captured in the fault slot
\*   dropped     an event was dropped because the fault slot was occupied
\*   fail        the set-up step of start() that failed, if any
\*   exch        how the netlink exchange the call drove ended: 1 (none or
\*               still pending), 0 (done) or the error code
\*   found       whether a GETFAMILY reply named a group "mlme" / "scan"
\*   alt         what ids would hold had the stack held other garbage
\*   subscribed  nl_socket_add_memberships succeeded; it was called with
\*               passed (and with altpassed in the other run)
\*   dumped      the interface dump was issued
\*   sent, acked trigger_scan's request was sent / acknowledged
\*   dumpfailed  a BSS dump's send_and_recv returned an error
CallRec(fn, n) ==
  [fn |-> fn, n |-> n, log |-> <<>>, fault |-> NoExc, dropped |-> FALSE, fail |-> "none", exch |-> 1,
   found |-> [mlme |-> FALSE, scan |-> FALSE], alt |-> NoIds,
   subscribed |-> FALSE, passed |-> NoIds, altpassed |-> NoIds,
   dumped |-> FALSE, sent |-> FALSE, acked |-> FALSE, dumpfailed |-> FALSE]

NewCall(fn) == CallRec(fn, ncalls + 1)
NoCall == CallRec("none", 0)
NoRet == [c |-> NoCall, result |-> "none", pyerr |-> NoExc]

(***************************************************************************)
(* nl80211_get_ie: the first information element with id ie.  Offsets are  *)
(* 0-based as in the C code; ies[pos + 1] is the C pos[0].  pos[1] is read *)
(* through a plain char, so its value depends on the build's signedness of *)
(* char (sgn).  The result is "found" with the element's offset, "null",   *)
(* "oob" (the scan left the buffer) or "hang" (the position stopped        *)
(* advancing).                                                             *)
(***************************************************************************)
CharVal(b, sgn) == IF sgn /\ b >= 128 THEN b - 256 ELSE b

IeRes(k, pos) == [kind |-> k, pos |-> pos]

RECURSIVE get_ie_from(_, _, _, _, _)
get_ie_from(ies, ie, pos, sgn, fuel) ==
  IF pos < 0 THEN IeRes("oob", pos)
  ELSE IF ~(pos + 1 < Len(ies)) THEN IeRes("null", pos)
  ELSE LET len == CharVal(ies[pos + 2], sgn) IN
       IF pos + 2 + len > Len(ies) THEN IeRes("null", pos)
       ELSE IF ies[pos + 1] = ie THEN IeRes("found", pos)
       ELSE IF fuel = 0 \/ 2 + len = 0 THEN IeRes("hang", pos)
       ELSE get_ie_from(ies, ie, pos + 2 + len, sgn, fuel - 1)

nl80211_get_ie(ies, ie, sgn) == get_ie_from(ies, ie, 0, sgn, Len(ies))

(***************************************************************************)
(* extract_ssid on one BSS, given p = [ssid_list, only_connected].  The    *)
(* result says what became of p.ssid_list and of the process:              *)
(*   "ok"     the list is as returned (appended to, or left alone)         *)
(*   "nomem"  Py_BuildValue or PyList_Append failed: the list was cleared  *)
(*   "fault"  a NULL or wild pointer was dereferenced                      *)
(* alloc is whether CPython's allocations succeed.                         *)
(***************************************************************************)
StatusName(bss) ==
  IF ~bss.hasStatus THEN "no status"
  ELSE IF bss.status = 1 THEN "Connected"
  ELSE IF bss.status = 0 THEN "Authenticated"
  ELSE IF bss.status = 2 THEN "Joined"
  ELSE "no status"

\* p.ssid_list: a NULL pointer, or a Python list of (ssid bytes, status).
NullList == [null |-> TRUE, list |-> <<>>]
List(l) == [null |-> FALSE, list |-> l]
ScanParams(l, only) == [ssid_list |-> l, only_connected |-> only]
NoScan == ScanParams(NullList, FALSE)

ExRes(k, l) == [kind |-> k, ssid_list |-> l]

extract_ssid(bss, sp, sgn, alloc) ==
  IF ~bss.hasStatus /\ sp.only_connected THEN ExRes("ok", sp.ssid_list)
  ELSE IF ~bss.hasIes THEN ExRes("fault", sp.ssid_list)
  ELSE LET r == nl80211_get_ie(bss.ies, 0, sgn) IN
       IF r.kind # "found" THEN ExRes("fault", sp.ssid_list)
       ELSE LET ssid_len == CharVal(bss.ies[r.pos + 2], sgn)
                bytes == SubSeq(bss.ies, r.pos + 3, r.pos + 2 + ssid_len)
            IN IF ~alloc \/ ssid_len < 0 THEN ExRes("nomem", NullList)
               ELSE IF sp.ssid_list.null THEN ExRes("fault", sp.ssid_list)
               ELSE ExRes("ok", List(Append(sp.ssid_list.list,
                                            <<bytes, StatusName(bss)>>)))

(***************************************************************************)
(* The observer dispatchers.  Every observe_* function of both modules has *)
(* the same frame: return at once when the fault slot is occupied or no    *)
(* observer is set; build the argument; call the observer's method; then,  *)
(* if the error indicator is set, PyErr_Fetch it into the fault slot.      *)
(* o is what happens inside: "ok", "raise" (the observer raises) or        *)
(* "nomem" (building the argument fails, the observer is not called).      *)
(***************************************************************************)
ObsOutcomes == {"ok", "raise", "nomem"}

ObsSuppressed == exc # NoExc \/ observer = "None"

\* The error indicator when the dispatcher reaches its exit label.
IndicatorAfter(o) ==
  IF o = "raise" THEN Exc("ObserverError", ncalls, Len(call.log) + 1)
  ELSE IF o = "nomem" THEN Exc("MemoryError", ncalls, Len(call.log) + 1)
  ELSE pyerr

\* A dispatcher that tests only the observer before it goes on.
observe_overwrite(o) ==
  IF observer = "None"
  THEN [exc |-> exc, pyerr |-> pyerr, stop |-> TRUE, call |-> call]
  ELSE LET ind == IndicatorAfter(o)
           lg == IF o = "nomem" THEN call.log
                 ELSE Append(call.log, IF o = "raise" THEN ind ELSE NoExc)
       IN [exc |-> IF ind # NoExc THEN ind ELSE exc, pyerr |-> NoExc,
           stop |-> ind # NoExc,
           call |-> [call EXCEPT !.log = lg,
                                 !.fault = IF ind # NoExc THEN ind ELSE @]]

\* The fault slot, the error indicator and the call's history after one
\* dispatch; stop: the event was dropped or a fault was captured.
observe(o) ==
  IF ObsSuppressed
  THEN [exc |-> exc, pyerr |-> pyerr, stop |-> TRUE,
        call |-> [call EXCEPT !.dropped = @ \/ (exc # NoExc /\ observer # "None")]]
  ELSE LET ind == IndicatorAfter(o)
           lg == IF o = "nomem" THEN call.log
                 ELSE Append(call.log, IF o = "raise" THEN ind ELSE NoExc)
       IN [exc |-> ind, pyerr |-> NoExc, stop |-> ind # NoExc,
           call |-> [call EXCEPT !.log = lg,
                                 !.fault = IF ind # NoExc THEN ind ELSE @]]

\* observe_wlan_event's return value.
observe_wlan_event(o) == IF observe(o).stop THEN NL_STOP ELSE NL_SKIP

(***************************************************************************)
(* send_and_recv.  An activation for request "EVENTS" is data_ready's one  *)
(* nl_recvmsgs_default on the event socket, whose control callbacks write  *)
(* listener->err (listener_new) in place of a local err.                   *)
(***************************************************************************)
IsEvents(f) == f.req = "EVENTS"

\* What the caller finds when the activation returns.
Returned(f) ==
  [err |-> f.err, sent |-> f.sent, settled |-> f.settled, code |-> f.code,
   unhandled |-> f.unhandled, late |-> f.late, lastRecv |-> f.lastRecv]

NoSret == Returned(NoFrame)

\* The activation g goes on.  With no message of the datagram left,
\* nl_recvmsgs returns; then the loop "while (err > 0)" either receives
\* again or ends, and send_and_recv leaves by out: (nl_cb_put, nlmsg_free,
\* return err).  data_ready calls nl_recvmsgs_default once, with no loop.
Resume(g) ==
  IF g.left = 0 /\ (IsEvents(g) \/ g.err <= 0)
  THEN /\ frames' = Pop
       /\ sret' = Returned(g)
       /\ pc' = g.cont
  ELSE /\ frames' = SetTop(g)
       /\ sret' = NoSret
       /\ pc' = IF g.left = 0 THEN "sar_loop" ELSE "sar_msg"

\* cb = nl_cb_alloc(); err = nl_send_auto(sock, msg); err = 1.
SarSend ==
  /\ pc = "sar_send"
  /\ \/ Resume(Top)                                        \* !cb: -ENOMEM
     \/ \E e \in RecvErrs : Resume([Top EXCEPT !.err = e])     \* send failed
     \/ Resume([Top EXCEPT !.err = 1, !.sent = TRUE])
  /\ UNCHANGED <<kind, observer, exc, lerr, nl80211_id, sock, pyerr, ids,
                 scan_p, call, ret, ncalls, rt, fam, loc>>

\* res = nl_recvmsgs(sock, cb); if (res < 0 && err > 0) err = res;
\* This action is a receive that hands no message to a callback (it fails,
\* or it returns 0 with nothing read), or the arrival of a datagram of n
\* messages.  The kernel sends at most budget messages.
SarRecv ==
  /\ pc = "sar_loop"
  /\ LET f == Top IN
     \/ \E res \in RecvErrs :
          Resume([f EXCEPT !.lastRecv = "error",
                           !.err = IF res < 0 /\ @ > 0 THEN res ELSE @])
     \/ /\ IsEvents(f) => sock.event = "connected"
        /\ Resume([f EXCEPT !.lastRecv = "empty"])
     \/ \E n \in 1..f.budget :
          /\ IsEvents(f) => sock.event = "connected"
          /\ Resume([f EXCEPT !.lastRecv = "datagram", !.left = n,
                              !.budget = @ - n])
  /\ UNCHANGED <<kind, observer, exc, lerr, nl80211_id, sock, pyerr, ids,
                 scan_p, call, ret, ncalls, rt, fam, loc>>

\* The activation after a callback returned r for the current message:
\* NL_OK and NL_SKIP go on to the datagram's next message, NL_STOP makes
\* nl_recvmsgs return and drops the rest of the datagram unread.  u: the
\* dropped rest held a VALID message.
Advance(f, r, u) ==
  IF r = NL_STOP
  THEN [f EXCEPT !.left = 0,
                 !.unhandled = @ \/ (u /\ f.left > 1 /\ f.settled = "no")]
  ELSE [f EXCEPT !.left = @ - 1]

\* The three control callbacks: what they store in *arg, what they return.
ack_handler == [err |-> 0, r |-> NL_STOP]
finish_handler == [err |-> 0, r |-> NL_SKIP]
error_handler(code) == [err |-> code, r |-> NL_STOP]

\* A control message of type t, whose callback did h.  On the event socket
\* *arg is listener->err.
Control(f, t, h, code) ==
  LET g == [f EXCEPT !.settled = IF @ = "no" THEN t ELSE @,
                     !.code = IF f.settled = "no" THEN code ELSE @,
                     !.err = IF IsEvents(f) THEN @ ELSE h.err]
  IN /\ Resume(Advance(g, h.r, FALSE))
     /\ lerr' = IF IsEvents(f) THEN h.err ELSE lerr

\* An ACK, DONE or ERROR message reaches nl_recvmsgs.
SarControl ==
  /\ pc = "sar_msg"
  /\ \E m \in NextMsgs(Top.req, Top.left = 1) :
       \/ /\ m.type = "ACK"
          /\ Control(Top, "ACK", ack_handler, 0)
       \/ /\ m.type = "DONE"
          /\ Control(Top, "DONE", finish_handler, 0)
       \/ /\ m.type = "ERROR"
          /\ Control(Top, "ERROR", error_handler(m.code), m.code)
  /\ UNCHANGED <<kind, observer, exc, nl80211_id, sock, pyerr, ids,
                 scan_p, call, ret, ncalls, rt, fam, loc>>

\* Bookkeeping of a VALID message handed to the activation's handler.
Handed(f) ==
  [f EXCEPT !.late = @ \/ (~IsEvents(f) /\ f.err <= 0)]

\* Whether the reply carries a complete group entry named lit.
HasGroup(groups, lit) ==
  /\ groups.has
  /\ \E i \in 1..Len(groups.list) :
       LET e == groups.list[i] IN e.hasName /\ e.hasId /\ e.name = lit

\* A VALID message of the GETFAMILY reply: family_handler, which returns
\* NL_SKIP.
FamilyValid ==
  /\ pc = "sar_msg"
  /\ Top.handler = "family"
  /\ \E m \in ValidMsgs(Top.req) :
       /\ ids' = family_handler(ids, m.groups)
       /\ call' = [call EXCEPT
                     !.alt = family_handler(@, m.groups),
                     !.found = [mlme |-> @.mlme \/ HasGroup(m.groups, STR_mlme),
                                scan |-> @.scan \/ HasGroup(m.groups, STR_scan)]]
  /\ Resume(Advance(Handed(Top), NL_SKIP, FALSE))
  /\ UNCHANGED <<kind, observer, exc, lerr, nl80211_id, sock, pyerr,
                 scan_p, ret, ncalls, rt, fam, loc>>

\* A VALID message of the BSS dump: nl80211_scan_handler.  Its messages all
\* carry an interface index and a BSS.
ScanValid ==
  /\ pc = "sar_msg"
  /\ Top.handler = "scan"
  /\ \E m \in ValidMsgs(Top.req), sgn \in BOOLEAN, alloc \in BOOLEAN,
        u \in BOOLEAN :
       LET x == IF m.ifindex >= 0 /\ m.bss.present
                THEN extract_ssid(m.bss, scan_p, sgn, alloc)
                ELSE ExRes("ok", scan_p.ssid_list)
           r == IF m.ifindex < 0 THEN NL_SKIP
                ELSE IF x.ssid_list.null THEN NL_STOP ELSE NL_SKIP
       IN \/ /\ x.kind = "ok"
             /\ scan_p' = [scan_p EXCEPT !.ssid_list = x.ssid_list]
             /\ Resume(Advance(Handed(Top), r, u))
             /\ UNCHANGED pyerr
          \/ /\ x.kind = "nomem"
             /\ scan_p' = [scan_p EXCEPT !.ssid_list = NullList]
             /\ pyerr' = Exc("MemoryError", ncalls, 0)
             /\ Resume(Advance(Handed(Top), r, u))
          \/ /\ x.kind = "fault"
             /\ pc' = "crashed"
             /\ UNCHANGED <<scan_p, pyerr, frames, sret>>
  /\ UNCHANGED <<kind, observer, exc, lerr, nl80211_id, sock, ids,
                 call, ret, ncalls, rt, fam, loc>>

(***************************************************************************)
(* event_handler, the valid-message callback of start()'s interface dump   *)
(* and of the event socket.                                                *)
(***************************************************************************)
DumpAll == {"NL80211_CMD_NEW_SCAN_RESULTS"}
DumpConnected == {"NL80211_CMD_ASSOCIATE", "NL80211_CMD_NEW_INTERFACE"}
\* A dump is issued for every interface index that is not negative.
NeedsDump_any(m) == m.ifindex >= 0 /\ m.cmd \in DumpAll \cup DumpConnected
NeedsDump(m) == m.ifindex > 0 /\ m.cmd \in DumpAll \cup DumpConnected

\* The handler's tail: observe_wlan_event, whose result it returns.
Deliver(f, o) ==
  /\ exc' = observe(o).exc
  /\ pyerr' = observe(o).pyerr
  /\ call' = observe(o).call
  /\ \E u \in BOOLEAN : Resume(Advance(f, observe_wlan_event(o), u))

\* A message that needs no BSS dump.
EventValid ==
  /\ pc = "sar_msg"
  /\ Top.handler = "event"
  /\ \E m \in ValidMsgs(Top.req), o \in ObsOutcomes :
       /\ ~NeedsDump(m)
       /\ Deliver(Handed(Top), o)
  /\ UNCHANGED <<kind, observer, lerr, nl80211_id, sock, ids, scan_p,
                 ret, ncalls, rt, fam, loc>>

\* A message that needs a BSS dump: dump_scan_results up to its
\* send_and_recv.
EventDump ==
  /\ pc = "sar_msg"
  /\ Top.handler = "event"
  /\ \E m \in ValidMsgs(Top.req) :
       /\ NeedsDump(m)
       /\ \/ \* nl_socket_alloc, genl_connect or PyList_New fails: the dump
             \* returns NULL with MemoryError set, the handler NL_STOP.
             /\ pyerr' = Exc("MemoryError", ncalls, 0)
             /\ \E u \in BOOLEAN : Resume(Advance(Handed(Top), NL_STOP, u))
             /\ UNCHANGED <<exc, call, scan_p>>
          \/ \* nlmsg_alloc or NLA_PUT_U32 fails: the dump returns the
             \* still empty list, which is delivered.
             /\ \E o \in ObsOutcomes : Deliver(Handed(Top), o)
             /\ UNCHANGED scan_p
          \/ \* send_and_recv(genl_sock, msg, nl80211_scan_handler, &p) on
             \* the dump's own socket.
             /\ scan_p' = ScanParams(List(<<>>), m.cmd \in DumpConnected)
             /\ frames' = Append(SetTop([Handed(Top) EXCEPT !.cur = m]),
                                 Frame("GET_SCAN", "scan", "dump_ret"))
             /\ pc' = "sar_send"
             /\ UNCHANGED <<exc, pyerr, call, sret>>
  /\ UNCHANGED <<kind, observer, lerr, nl80211_id, sock, ids, ret,
                 ncalls, rt, fam, loc>>

\* dump_scan_results after its send_and_recv (whose result it drops), and
\* the rest of event_handler.
DumpReturn ==
  /\ pc = "dump_ret"
  /\ LET f == [Top EXCEPT !.cur = NoMsg]
         failed == call.dumpfailed \/ sret.err < 0
     IN
     \/ /\ scan_p.ssid_list.null
        /\ \E u \in BOOLEAN : Resume(Advance(f, NL_STOP, u))
        /\ call' = [call EXCEPT !.dumpfailed = failed]
        /\ UNCHANGED <<exc, pyerr>>
     \/ /\ ~scan_p.ssid_list.null
        /\ \E o \in ObsOutcomes :
             /\ exc' = observe(o).exc
             /\ pyerr' = observe(o).pyerr
             /\ call' = [observe(o).call EXCEPT !.dumpfailed = failed]
             /\ \E u \in BOOLEAN :
                  Resume(Advance(f, observe_wlan_event(o), u))
  /\ scan_p' = NoScan
  /\ UNCHANGED <<kind, observer, lerr, nl80211_id, sock, ids, ret, ncalls,
                 rt, fam, loc>>

(***************************************************************************)
(* The public methods of the nl80211 listener.                             *)
(***************************************************************************)
\* A method returns to the interpreter: result is "None" or "NULL", ind the
\* error indicator it leaves, which the interpreter then consumes.
Finish(c, result, ind) ==
  /\ ret' = [c |-> c, result |-> result, pyerr |-> ind]
  /\ pyerr' = NoExc
  /\ call' = NoCall
  /\ pc' = "idle"

\* A maybe_restore that re-raises the fault and leaves it in the slot.
maybe_restore_keep ==
  IF exc # NoExc
  THEN [result |-> "NULL", pyerr |-> exc, exc |-> exc]
  ELSE [result |-> "None",
        pyerr |-> IF lerr # 0 THEN Exc("RuntimeError", lerr, 0) ELSE pyerr,
        exc |-> exc]

\* maybe_restore of _nl80211module.c: the result it returns, the error
\* indicator and the fault slot it leaves.
maybe_restore ==
  IF exc # NoExc
  THEN [result |-> "NULL", pyerr |-> exc, exc |-> NoExc]
  ELSE [result |-> "None",
        pyerr |-> IF lerr # 0 THEN Exc("RuntimeError", lerr, 0) ELSE pyerr,
        exc |-> exc]

\* The nl80211 family id the kernel assigns, and a failure of
\* genl_ctrl_resolve that says nothing about the family (-NLE_NOMEM).
FamilyIds == {28}
ResolveErrs == {-5}

Other(g) == CHOOSE h \in GarbageIds : h # g

\* listener_start: genl_connect(genl_sock), genl_ctrl_resolve.  ids is not
\* initialised: it holds what the stack held.
StartConnect ==
  /\ pc = "idle" /\ kind = "nl80211" /\ ncalls < MaxCalls
  /\ ncalls' = ncalls + 1
  /\ \/ \E r \in RecvErrs :
          /\ Finish([NewCall("start") EXCEPT !.fail = "genl_connect"], "NULL",
                    Exc("RuntimeError", r, 1))
          /\ UNCHANGED <<sock, nl80211_id, ids>>
     \/ /\ sock.genl = "allocated"
        /\ sock' = [sock EXCEPT !.genl = "connected"]
        /\ \E id \in FamilyIds \cup ResolveErrs, a \in GarbageIds, b \in GarbageIds :
             /\ nl80211_id' = id
             /\ ids' = Ids(a, b)
             /\ call' = [NewCall("start") EXCEPT
                           !.alt = Ids(Other(a), Other(b)),
                           !.fail = IF id < 0 THEN "genl_ctrl_resolve" ELSE "none"]
        /\ ret' = NoRet
        /\ pc' = "st_mcast"
        /\ UNCHANGED pyerr
  /\ UNCHANGED <<kind, observer, exc, lerr, frames, sret, scan_p, rt, fam, loc>>

\* nl_get_multicast_ids up to its send_and_recv: nlmsg_alloc fails
\* (-ENOMEM), NLA_PUT_STRING fails (-1), or the request goes out.
StartMcast ==
  /\ pc = "st_mcast"
  /\ \/ \E r \in {-ENOMEM, -1} :
          /\ Finish([call EXCEPT !.fail = "nl_get_multicast_ids"], "NULL",
                    Exc("RuntimeError", r, 2))
          /\ ids' = NoIds
          /\ UNCHANGED frames
     \/ /\ frames' = Push(Frame("GETFAMILY", "family", "st_mcast_ret"))
        /\ pc' = "sar_send"
        /\ UNCHANGED <<ids, call, ret, pyerr>>
  /\ UNCHANGED <<kind, observer, exc, lerr, nl80211_id, sock, sret, scan_p,
                 ncalls, rt, fam, loc>>

\* listener_start after nl_get_multicast_ids returned r.
StartMcastRet ==
  /\ pc = "st_mcast_ret"
  /\ \/ /\ sret.err < 0
        /\ Finish([call EXCEPT !.fail = "nl_get_multicast_ids"], "NULL",
                  Exc("RuntimeError", sret.err, 2))
        /\ ids' = NoIds
     \/ /\ sret.err >= 0
        /\ pc' = "st_event"
        /\ UNCHANGED <<ids, call, ret, pyerr>>
  /\ sret' = NoSret
  /\ UNCHANGED <<kind, observer, exc, lerr, nl80211_id, sock, frames, scan_p,
                 ncalls, rt, fam, loc>>

\* genl_connect(event_sock), nl_socket_set_nonblocking,
\* nl_socket_add_memberships(event_sock, ids.mlme_id, ids.scan_id, 0).
StartEvent ==
  /\ pc = "st_event"
  /\ \/ \E r \in RecvErrs :
          /\ Finish([call EXCEPT !.fail = "genl_connect"], "NULL",
                    Exc("RuntimeError", r, 1))
          /\ UNCHANGED sock
     \/ \E r \in RecvErrs :
          /\ sock' = [sock EXCEPT !.event = "connected"]
          /\ Finish([call EXCEPT !.fail = "nl_socket_set_nonblocking"], "NULL",
                    Exc("RuntimeError", r, 3))
     \/ \E r \in RecvErrs :
          /\ sock' = [sock EXCEPT !.event = "connected"]
          /\ Finish([call EXCEPT !.fail = "nl_socket_add_memberships",
                                 !.passed = ids,
                                 !.altpassed = call.alt], "NULL",
                    Exc("RuntimeError", r, 4))
     \/ /\ sock' = [sock EXCEPT !.event = "connected"]
        /\ call' = [call EXCEPT !.subscribed = TRUE, !.passed = ids,
                                !.altpassed = call.alt]
        /\ pc' = "st_dump"
        /\ UNCHANGED <<ret, pyerr>>
  /\ ids' = NoIds
  /\ UNCHANGED <<kind, observer, exc, lerr, nl80211_id, frames, sret, scan_p,
                 ncalls, rt, fam, loc>>

\* "Request a dump of all wlan interfaces to get us started": nlmsg_alloc
\* (on failure start returns NULL and sets no error), then
\* send_and_recv(genl_sock, msg, event_handler, listener).
StartDump ==
  /\ pc = "st_dump"
  /\ \/ /\ Finish(call, "NULL", pyerr)
        /\ UNCHANGED frames
     \/ /\ frames' = Push(Frame("GET_INTERFACE", "event", "st_restore"))
        /\ call' = [call EXCEPT !.dumped = TRUE]
        /\ pc' = "sar_send"
        /\ UNCHANGED <<ret, pyerr>>
  /\ UNCHANGED <<kind, observer, exc, lerr, nl80211_id, sock, sret, ids,
                 scan_p, ncalls, rt, fam, loc>>

\* return maybe_restore(listener); send_and_recv's result is not looked at.
StartRestore ==
  /\ pc = "st_restore"
  /\ Finish([call EXCEPT !.exch = sret.err], maybe_restore.result,
            maybe_restore.pyerr)
  /\ exc' = maybe_restore.exc
  /\ sret' = NoSret
  /\ UNCHANGED <<kind, observer, lerr, nl80211_id, sock, frames, ids, scan_p,
                 ncalls, rt, fam, loc>>

\* listener_data_ready: nl_recvmsgs_default(listener->event_sock).
DataReady ==
  /\ pc = "idle" /\ kind = "nl80211" /\ ncalls < MaxCalls
  /\ ncalls' = ncalls + 1
  /\ call' = NewCall("data_ready")
  /\ ret' = NoRet
  /\ frames' = Push([Frame("EVENTS", "event", "dr_restore") EXCEPT !.err = 0])
  /\ pc' = "sar_loop"
  /\ UNCHANGED <<kind, observer, exc, lerr, nl80211_id, sock, pyerr, sret, ids,
                 scan_p, rt, fam, loc>>

\* return maybe_restore(listener); nl_recvmsgs_default's result is not
\* looked at.  The exchange failed if an ERROR message came in.
DataReadyRestore ==
  /\ pc = "dr_restore"
  /\ Finish([call EXCEPT !.exch = IF sret.settled = "ERROR" THEN sret.code ELSE 0],
            maybe_restore.result, maybe_restore.pyerr)
  /\ exc' = maybe_restore.exc
  /\ sret' = NoSret
  /\ UNCHANGED <<kind, observer, lerr, nl80211_id, sock, frames, ids, scan_p,
                 ncalls, rt, fam, loc>>

\* listener_trigger_scan / nl80211_trigger_scan up to send_and_recv.
\* r is -1 when nl_socket_alloc fails, genl_connect's result afterwards.
TriggerScan ==
  /\ pc = "idle" /\ kind = "nl80211" /\ ncalls < MaxCalls
  /\ ncalls' = ncalls + 1
  /\ \/ \E r \in {-1} \cup RecvErrs :      \* no socket, or not connected: r < 0
          /\ Finish(NewCall("trigger_scan"), "NULL", Exc("RuntimeError", r, 5))
          /\ UNCHANGED frames
     \/ \* nlmsg_alloc (msg or ssids), NLA_PUT_U32 or NLA_PUT fails after
        \* genl_connect returned 0: goto nla_put_failure with r = 0.
        /\ Finish(NewCall("trigger_scan"), "None", pyerr)
        /\ UNCHANGED frames
     \/ /\ frames' = Push(Frame("TRIGGER_SCAN", "NULL", "ts_ret"))
        /\ call' = NewCall("trigger_scan")
        /\ ret' = NoRet
        /\ pc' = "sar_send"
        /\ UNCHANGED pyerr
  /\ UNCHANGED <<kind, observer, exc, lerr, nl80211_id, sock, sret, ids,
                 scan_p, rt, fam, loc>>

\* nl80211_trigger_scan returns send_and_recv's r; r < 0 is reported.
TriggerScanRet ==
  /\ pc = "ts_ret"
  /\ LET c == [call EXCEPT !.sent = sret.sent, !.acked = sret.settled = "ACK",
                           !.exch = sret.err]
     IN \/ /\ sret.err < 0
           /\ Finish(c, "NULL", Exc("RuntimeError", sret.err, 5))
        \/ /\ sret.err >= 0
           /\ Finish(c, "None", pyerr)
  /\ sret' = NoSret
  /\ UNCHANGED <<kind, observer, exc, lerr, nl80211_id, sock, frames, ids,
                 scan_p, ncalls, rt, fam, loc>>

\* listener_dealloc of _nl80211module.c: the listener's last reference is
\* dropped between two calls.  It clears the observer and the fault slot
\* and calls nl_socket_free on event_sock, and on nothing else.
listener_dealloc ==
  /\ pc = "idle" /\ kind = "nl80211"
  /\ pc' = "freed"
  /\ observer' = "None"
  /\ exc' = NoExc
  /\ sock' = [sock EXCEPT !.event = "freed"]
  /\ UNCHANGED <<kind, lerr, nl80211_id, pyerr, frames, sret, ids, scan_p,
                 call, ret, ncalls, rt, fam, loc>>

(***************************************************************************)
(* The public methods of the rtnetlink listener.  rt.link_cache is         *)
(* listener->link_cache ("NULL" or "set"); rt.todo counts the objects      *)
(* libnl still has to pass to a callback: the cached links, addresses and  *)
(* routes that start() replays through _e_link, _e_addr and _e_route, or   *)
(* the changes one nl_cache_mngr_data_ready passes to _cb_link, _cb_addr   *)
(* and _cb_route.  observe_link_change, observe_addr_change and            *)
(* observe_route_change differ only in the argument they build.            *)
(***************************************************************************)
\* A maybe_restore that empties the slot and reports success.
rt_maybe_restore_swallow ==
  [result |-> "None", pyerr |-> pyerr, exc |-> NoExc]

\* maybe_restore of _rtnetlinkmodule.c.
rt_maybe_restore ==
  IF exc # NoExc
  THEN [result |-> "NULL", pyerr |-> exc, exc |-> NoExc]
  ELSE [result |-> "None", pyerr |-> pyerr, exc |-> exc]

\* The set-up steps of listener_start, in order, and the exception each
\* raises when it fails.
RtSetupSteps ==
  <<"rtnl_link_alloc_cache", "add_link_cache", "rtnl_addr_alloc_cache",
    "add_addr_cache", "rtnl_route_alloc_cache", "add_route_cache">>

RtErrType(i) == IF i \in {1, 3, 5} THEN "MemoryError" ELSE "RuntimeError"

(***************************************************************************)
(* The link cache.  rt.link is the cache's object for the one interface    *)
(* the kernel may have (index 2): whether it is in the cache, its l_flags  *)
(* and the l_flag_mask that rtnl_link_set_flags / rtnl_link_unset_flags    *)
(* accumulate in it.  An object the cache parses from a kernel message has *)
(* an empty l_flag_mask.  rt.hist holds one record for each of the last    *)
(* two set_link_flags / unset_link_flags calls.                            *)
(***************************************************************************)
LinkFlags == {"IFF_UP", "IFF_PROMISC"}

Link(p, f, m) == [present |-> p, l_flags |-> f, l_flag_mask |-> m]
NoLink == Link(FALSE, {}, {})

CachedIndexes == {2}

\* What the link cache may hold for interface 2 after it was filled or
\* updated from the kernel.
KernelLinks == {NoLink, Link(TRUE, {}, {}), Link(TRUE, {"IFF_UP"}, {})}

\* The arguments of set_link_flags / unset_link_flags.
IfArgs == {2, 9}
FlagArgs == {{"IFF_UP"}, {"IFF_PROMISC"}, {"IFF_UP", "IFF_PROMISC"}}

\* rtnl_link_get(cache, ifindex) finds an object.
rtnl_link_get(ifindex) == ifindex \in CachedIndexes /\ rt.link.present

rtnl_link_set_flags(l, flags) ==
  [l EXCEPT !.l_flags = @ \cup flags, !.l_flag_mask = @ \cup flags]

rtnl_link_unset_flags(l, flags) ==
  [l EXCEPT !.l_flags = @ \ flags, !.l_flag_mask = @ \cup flags]

\* The ifinfomsg rtnl_link_change(sk, orig, changes, 0) sends.
rtnl_link_change(ifindex, orig, changes) ==
  [ifi_index |-> ifindex,
   ifi_flags |-> (orig.l_flags \ changes.l_flag_mask) \cup changes.l_flags,
   ifi_change |-> changes.l_flag_mask]

NoRequest == [ifi_index |-> 0, ifi_flags |-> {}, ifi_change |-> {}]

\* The steps of set_link_flags / unset_link_flags that can fail, in order.
RtLinkSteps ==
  <<"rtnl_link_get", "nl_socket_alloc", "nl_connect", "rtnl_link_change">>

\* The record of one call: its arguments, the cached l_flags it found
\* (old), how far it got (alloc: a socket was allocated; connected; sent:
\* the request was sent), the request, the step that failed, the result.
LinkCall(n, fn, ifindex, flags) ==
  [n |-> n, fn |-> fn, ifindex |-> ifindex, flags |-> flags,
   found |-> rtnl_link_get(ifindex), old |-> rt.link.l_flags,
   alloc |-> FALSE, connected |-> FALSE, sent |-> FALSE,
   req |-> NoRequest, fail |-> "none", result |-> "none", pyerr |-> NoExc]

\* The last two records.
Remember(h) ==
  IF Len(rt.hist) < 2 THEN Append(rt.hist, h) ELSE <<rt.hist[2], h>>

\* A set_link_flags that allocates and connects its socket before the lookup.
LinkCallEager(n, fn, ifindex, flags) ==
  [LinkCall(n, fn, ifindex, flags) EXCEPT !.alloc = TRUE, !.connected = TRUE]

\* The call's record as it stands when the lookup is made.
LinkCallEntry(n, fn, ifindex, flags) == LinkCall(n, fn, ifindex, flags)

\* A rtnl_link_change that asks for the given flags only.
link_request_arg(h, l, flags) ==
  [ifi_index |-> h.ifindex, ifi_flags |-> flags, ifi_change |-> flags]

\* The request of a call whose lookup found l: flags are set or cleared in
\* l itself, which is passed as both orig and changes.
link_request(h, l, flags) ==
  LET m == IF h.fn = "set_link_flags" THEN rtnl_link_set_flags(l, flags)
           ELSE rtnl_link_unset_flags(l, flags)
  IN rtnl_link_change(h.ifindex, m, m)

\* listener_set_link_flags / listener_unset_link_flags.  With link_cache
\* NULL, rtnl_link_get reads through the NULL pointer.
RtLinkFlags ==
  /\ pc = "idle" /\ kind = "rtnetlink" /\ ncalls < MaxRtCalls
  /\ ncalls' = ncalls + 1
  /\ \E fn \in {"set_link_flags", "unset_link_flags"}, ifindex \in IfArgs,
        flags \in FlagArgs :
       LET h == LinkCallEntry(ncalls + 1, fn, ifindex, flags)
           c == NewCall(fn)
           Return(k, res, e) ==
             /\ Finish([c EXCEPT !.fail = k.fail], res, e)
             /\ rt' = [rt EXCEPT
                  !.hist = Remember([k EXCEPT !.result = res, !.pyerr = e]),
                  !.link = IF k.sent
                           THEN IF fn = "set_link_flags"
                                THEN rtnl_link_set_flags(@, flags)
                                ELSE rtnl_link_unset_flags(@, flags)
                           ELSE @]
       IN IF rt.link_cache = "NULL"
          THEN /\ pc' = "crashed"
               /\ call' = c
               /\ UNCHANGED <<ret, pyerr, rt>>
          ELSE IF ~h.found
          THEN Return([h EXCEPT !.fail = RtLinkSteps[1]], "NULL",
                      Exc("RuntimeError", 0, 1))
          ELSE \/ Return([h EXCEPT !.fail = RtLinkSteps[2]], "NULL",
                         Exc("MemoryError", 0, 2))
               \/ \E r \in RecvErrs :
                    Return([h EXCEPT !.alloc = TRUE, !.fail = RtLinkSteps[3]],
                           "NULL", Exc("RuntimeError", r, 3))
               \/ \E r \in {0} \cup KernelErrs :
                    LET k == [h EXCEPT !.alloc = TRUE, !.connected = TRUE,
                                       !.sent = TRUE,
                                       !.req = link_request(h, rt.link, flags)]
                    IN IF r < 0
                       THEN Return([k EXCEPT !.fail = RtLinkSteps[4]], "NULL",
                                   Exc("RuntimeError", r, 4))
                       ELSE Return(k, "None", NoExc)
  /\ UNCHANGED <<kind, observer, exc, lerr, nl80211_id, sock, frames, sret,
                 ids, scan_p, fam, loc>>

\* listener_start up to the three nl_cache_foreach.
RtStart ==
  /\ pc = "idle" /\ kind = "rtnetlink" /\ ncalls < MaxRtCalls
  /\ ncalls' = ncalls + 1
  /\ \/ \E i \in 1..Len(RtSetupSteps), r \in RecvErrs :
          /\ Finish([NewCall("start") EXCEPT !.fail = RtSetupSteps[i]], "NULL",
                    Exc(RtErrType(i), r, i))
          /\ \E l \in KernelLinks :
               rt' = [rt EXCEPT
                 !.link_cache = IF i = 1 THEN @
                                ELSE IF i = 2 THEN "NULL" ELSE "set",
                 !.link = IF i = 1 THEN @ ELSE IF i = 2 THEN NoLink ELSE l]
     \/ \E n \in 0..MaxObjs, l \in KernelLinks :
          /\ rt' = [rt EXCEPT !.link_cache = "set", !.todo = n, !.link = l]
          /\ call' = NewCall("start")
          /\ ret' = NoRet
          /\ pc' = "rt_observe"
          /\ UNCHANGED pyerr
  /\ UNCHANGED <<kind, observer, exc, lerr, nl80211_id, sock, frames, sret,
                 ids, scan_p, fam, loc>>

\* listener_data_ready: nl_cache_mngr_data_ready(listener->mngr), whose
\* result r (an error, or the number of messages read) is not looked at.
\* It passes n changes to the callbacks.
RtDataReady ==
  /\ pc = "idle" /\ kind = "rtnetlink" /\ ncalls < MaxRtCalls
  /\ ncalls' = ncalls + 1
  /\ \E n \in 0..MaxObjs, r \in {0} \cup RecvErrs :
       /\ n > 0 => rt.link_cache = "set"
       /\ \E l \in IF n > 0 THEN KernelLinks \cup {rt.link} ELSE {rt.link} :
            rt' = [rt EXCEPT !.todo = n, !.link = l]
       /\ call' = [NewCall("data_ready") EXCEPT !.exch = r]
  /\ ret' = NoRet
  /\ pc' = "rt_observe"
  /\ UNCHANGED <<kind, observer, exc, lerr, nl80211_id, sock, pyerr, frames,
                 sret, ids, scan_p, fam, loc>>

\* One object reaches observe_link_change, observe_addr_change or
\* observe_route_change.
RtObserve ==
  /\ pc = "rt_observe"
  /\ rt.todo > 0
  /\ rt' = [rt EXCEPT !.todo = @ - 1]
  /\ \E o \in ObsOutcomes :
       /\ exc' = observe(o).exc
       /\ pyerr' = observe(o).pyerr
       /\ call' = observe(o).call
  /\ UNCHANGED <<kind, observer, lerr, nl80211_id, sock, pc, frames, sret,
                 ids, scan_p, ret, ncalls, fam, loc>>

\* return maybe_restore(listener);
RtRestore ==
  /\ pc = "rt_observe"
  /\ rt.todo = 0
  /\ Finish(call, rt_maybe_restore.result, rt_maybe_restore.pyerr)
  /\ exc' = rt_maybe_restore.exc
  /\ UNCHANGED <<kind, observer, lerr, nl80211_id, sock, frames, sret, ids,
                 scan_p, ncalls, rt, fam, loc>>

(***************************************************************************)
(* The listener after tp_new and tp_init: tp_alloc zeroes the object, so   *)
(* the fault slot is empty and err and nl80211_id are 0; both sockets are  *)
(* allocated and not connected.                                            *)
(***************************************************************************)
NoRt == [link_cache |-> "NULL", todo |-> 0, link |-> NoLink, hist |-> <<>>]
NoFam == [res |-> NoIds, entries |-> <<>>, i |-> 0]
NoLoc == [fn |-> "none"]

Init ==
  /\ kind \in {"nl80211", "rtnetlink"}
  /\ observer \in {"None", "obs"}
  /\ exc = NoExc
  /\ lerr = 0
  /\ nl80211_id = 0
  /\ sock = [genl |-> "allocated", event |-> "allocated"]
  /\ pyerr = NoExc
  /\ pc = "idle"
  /\ frames = <<>>
  /\ sret = NoSret
  /\ ids = NoIds
  /\ scan_p = NoScan
  /\ call = NoCall
  /\ ret = NoRet
  /\ ncalls = 0
  /\ rt = NoRt
  /\ fam = NoFam
  /\ loc = NoLoc

Next ==
  \/ StartConnect \/ StartMcast \/ StartMcastRet \/ StartEvent \/ StartDump
  \/ StartRestore \/ DataReady \/ DataReadyRestore \/ TriggerScan
  \/ TriggerScanRet \/ listener_dealloc
  \/ SarSend \/ SarRecv \/ SarControl \/ FamilyValid \/ ScanValid
  \/ EventValid \/ EventDump \/ DumpReturn
  \/ RtStart \/ RtDataReady \/ RtObserve \/ RtRestore \/ RtLinkFlags

Spec == Init /\ [][Next]_vars

(***************************************************************************)
(* family_handler on its own: one GETFAMILY reply whose group entries      *)
(* carry any name payload, well-formed or not.  The n-th entry has id      *)
(* 10 + n, so an id in res tells which entry set it.                       *)
(***************************************************************************)
\* Name payloads: empty, "s", "scan" without and with terminator, "scanx",
\* "ml", "mlme" without and with terminator, "config".
GroupNames ==
  { <<>>, <<115>>, <<115, 99, 97, 110>>, STR_scan,
    <<115, 99, 97, 110, 120, NUL>>,
    <<109, 108>>, <<109, 108, 109, 101>>, STR_mlme,
    <<99, 111, 110, 102, 105, 103, NUL>> }

\* An entry's shape: its name payload, or a missing name or id attribute.
EntryShapes ==
  {[hasName |-> TRUE, name |-> n, hasId |-> TRUE] : n \in GroupNames}
    \cup {[hasName |-> FALSE, name |-> <<>>, hasId |-> TRUE],
          [hasName |-> TRUE, name |-> STR_scan, hasId |-> FALSE]}

MaxEntries == 2   \* group entries in the reply

Numbered(shapes) ==
  [k \in 1..Len(shapes) |->
     [hasName |-> shapes[k].hasName, name |-> shapes[k].name,
      hasId |-> shapes[k].hasId, id |-> 10 + k]]

FamilyInputs ==
  UNION {[1..n -> EntryShapes] : n \in 1..MaxEntries}

InitFamily ==
  /\ kind = "family"
  /\ observer = "None"
  /\ exc = NoExc
  /\ lerr = 0
  /\ nl80211_id = 0
  /\ sock = [genl |-> "allocated", event |-> "allocated"]
  /\ pyerr = NoExc
  /\ pc = "family"
  /\ frames = <<>>
  /\ sret = NoSret
  /\ ids = NoIds
  /\ scan_p = NoScan
  /\ call = NoCall
  /\ ret = NoRet
  /\ ncalls = 0
  /\ rt = NoRt
  /\ \E shapes \in FamilyInputs :
       fam = [res |-> NoIds, entries |-> Numbered(shapes), i |-> 0]
  /\ loc = NoLoc

\* One turn of nla_for_each_nested.
FamilyStep ==
  /\ pc = "family"
  /\ fam.i < Len(fam.entries)
  /\ fam' = [fam EXCEPT !.res = family_entry(@, fam.entries[fam.i + 1]),
                        !.i = @ + 1]
  /\ UNCHANGED <<kind, observer, exc, lerr, nl80211_id, sock, pyerr, pc,
                 frames, sret, ids, scan_p, call, ret, ncalls, rt, loc>>

NextFamily == FamilyStep

SpecFamily == InitFamily /\ [][NextFamily]_vars

(***************************************************************************)
(* The listener's variables in a specification that runs one function on   *)
(* its own: nothing of the listener moves.                                 *)
(***************************************************************************)
Standalone(k, p) ==
  /\ kind = k
  /\ lerr = 0
  /\ nl80211_id = 0
  /\ sock = [genl |-> "allocated", event |-> "allocated"]
  /\ pyerr = NoExc
  /\ pc = p
  /\ frames = <<>>
  /\ sret = NoSret
  /\ ids = NoIds
  /\ scan_p = NoScan
  /\ call = NoCall
  /\ ret = NoRet
  /\ ncalls = 0
  /\ rt = NoRt
  /\ fam = NoFam

(***************************************************************************)
(* nl80211_get_ie on its own, one turn of its while loop per step, on      *)
(* every buffer of at most MaxIeLen bytes.  pos is the offset of the C     *)
(* pointer pos from ies (ies[pos + 1] here is the C pos[0]).  A read at an *)
(* offset outside the buffer is recorded in oob; what it returns is not    *)
(* determined by the buffer, and it may also end the process (status       *)
(* "fault").  sgn: plain char is signed in this build.                     *)
(***************************************************************************)
MaxIeLen == 4   \* bytes in the information-element buffer
MaxIter == 6    \* turns of the loop that are followed

IeBytes == {0, 1, 253, 254, 255}

IeBuffers == UNION {[1..n -> IeBytes] : n \in 0..MaxIeLen}

\* The values a read of the byte at offset k may return.
IeRead(k) ==
  IF 0 <= k /\ k < Len(loc.ies) THEN {loc.ies[k + 1]} ELSE IeBytes

IsOob(k) == ~(0 <= k /\ k < Len(loc.ies))

InitIe ==
  /\ Standalone("get_ie", "get_ie")
  /\ exc = NoExc
  /\ observer = "None"
  /\ \E b \in IeBuffers, sg \in BOOLEAN, nul \in BOOLEAN :
       /\ nul => b = <<>>
       /\ loc = [fn |-> "nl80211_get_ie", null |-> nul, ies |-> b, ie |-> 0,
                 sgn |-> sg, pos |-> 0, iter |-> 0, status |-> "entry",
                 oob |-> FALSE]

\* if (ies == NULL) return NULL; pos = ies; end = ies + ies_len;
IeEnter ==
  /\ pc = "get_ie"
  /\ loc.status = "entry"
  /\ loc' = [loc EXCEPT !.status = IF loc.null THEN "null" ELSE "loop"]
  /\ UNCHANGED <<kind, observer, exc, lerr, nl80211_id, sock, pyerr, pc,
                 frames, sret, ids, scan_p, call, ret, ncalls, rt, fam>>

\* One test of "pos + 1 < end" and, when it holds, one turn of the loop.
IeStep ==
  /\ pc = "get_ie"
  /\ loc.status = "loop"
  /\ loc.iter < MaxIter
  /\ LET end == Len(loc.ies)
         pos == loc.pos
     IN IF ~(pos + 1 < end)
        THEN loc' = [loc EXCEPT !.status = "null", !.iter = @ + 1]
        ELSE \E b1 \in IeRead(pos + 1), b0 \in IeRead(pos) :
               LET len == CharVal(b1, loc.sgn) IN
               \/ /\ pos + 2 + len > end
                  /\ loc' = [loc EXCEPT !.status = "null", !.iter = @ + 1,
                                        !.oob = @ \/ IsOob(pos + 1)]
               \/ /\ ~(pos + 2 + len > end)
                  /\ b0 = loc.ie
                  /\ loc' = [loc EXCEPT !.status = "found", !.iter = @ + 1,
                                        !.oob = @ \/ IsOob(pos + 1) \/ IsOob(pos)]
               \/ /\ ~(pos + 2 + len > end)
                  /\ b0 # loc.ie
                  /\ loc' = [loc EXCEPT !.pos = pos + 2 + len, !.iter = @ + 1,
                                        !.oob = @ \/ IsOob(pos + 1) \/ IsOob(pos)]
               \/ /\ IsOob(pos + 1) \/ (~(pos + 2 + len > end) /\ IsOob(pos))
                  /\ loc' = [loc EXCEPT !.status = "fault", !.iter = @ + 1,
                                        !.oob = TRUE]
  /\ UNCHANGED <<kind, observer, exc, lerr, nl80211_id, sock, pyerr, pc,
                 frames, sret, ids, scan_p, call, ret, ncalls, rt, fam>>

NextIe == IeEnter \/ IeStep

SpecIe == InitIe /\ [][NextIe]_vars

(***************************************************************************)
(* nl80211_scan_handler on one message of a BSS dump, on its own.  The     *)
(* message carries an interface index (or none: -1) and a BSS attribute    *)
(* (or none); p is the dump's struct scan_handler_params.  status becomes  *)
(* "done" with the handler's return value in ret, or "crashed" when        *)
(* extract_ssid dereferences a NULL or wild pointer.                       *)
(***************************************************************************)
LongLen == 128   \* payload length of the long element in ScanBss

\* A payload of n bytes.
Fill(n) == [i \in 1..n |-> 7]

ScanBss ==
  { NoBss,
    Bss(TRUE, 1, TRUE, <<0, 3, 255, 0, 65>>),
    Bss(FALSE, 0, TRUE, <<0, 0>>),
    Bss(TRUE, 0, TRUE, <<1, 1, 7, 0, 2, 104, 105>>),
    Bss(TRUE, 1, TRUE, <<0, 1, 65, 0, 1, 66>>),
    Bss(TRUE, 3, TRUE, <<0, 1, 66>>),
    Bss(TRUE, 1, TRUE, <<1, LongLen>> \o Fill(LongLen) \o <<0, 1, 65>>),
    Bss(TRUE, 1, TRUE, <<1, 1, 7>>),
    Bss(TRUE, 2, FALSE, <<>>),
    Bss(FALSE, 0, FALSE, <<>>) }

ScanLists == {NullList, List(<<>>), List(<< <<(<<104, 105>>), "Connected">> >>)}

InitScan ==
  /\ Standalone("scan_handler", "scan_one")
  /\ exc = NoExc
  /\ observer = "None"
  /\ \E b \in ScanBss, i \in {-1, 3}, l \in ScanLists, only \in BOOLEAN,
        sg \in BOOLEAN, al \in BOOLEAN :
       loc = [fn |-> "nl80211_scan_handler", ifindex |-> i, bss |-> b,
              p |-> ScanParams(l, only), before |-> l, sgn |-> sg,
              alloc |-> al, status |-> "entry", ret |-> 0]

ScanOne ==
  /\ pc = "scan_one"
  /\ loc.status = "entry"
  /\ LET x == IF loc.ifindex >= 0 /\ loc.bss.present
              THEN extract_ssid(loc.bss, loc.p, loc.sgn, loc.alloc)
              ELSE ExRes("ok", loc.p.ssid_list)
     IN IF x.kind = "fault"
        THEN loc' = [loc EXCEPT !.status = "crashed"]
        ELSE loc' = [loc EXCEPT !.status = "done",
                                !.p = ScanParams(x.ssid_list, loc.p.only_connected),
                                !.ret = IF loc.ifindex < 0 THEN NL_SKIP
                                        ELSE IF x.ssid_list.null THEN NL_STOP
                                        ELSE NL_SKIP]
  /\ UNCHANGED <<kind, observer, exc, lerr, nl80211_id, sock, pyerr, pc,
                 frames, sret, ids, scan_p, call, ret, ncalls, rt, fam>>

NextScan == ScanOne

SpecScan == InitScan /\ [][NextScan]_vars

(***************************************************************************)
(* observe_route_change on its own, on one route.  A route has a           *)
(* destination (none: NULL, or an address of len bytes with a prefix       *)
(* length) and a list of next-hops, each with an output interface index.   *)
(***************************************************************************)
MaxHops == 2   \* next-hops of a route

NullAddr == [null |-> TRUE, bytes |-> <<>>, prefixlen |-> 0]
Addr(b, n) == [null |-> FALSE, bytes |-> b, prefixlen |-> n]

nl_addr_get_len(a) == Len(a.bytes)

RECURSIVE Dotted(_)
Dotted(b) ==
  IF Len(b) = 0 THEN ""
  ELSE IF Len(b) = 1 THEN ToString(b[1])
  ELSE ToString(b[1]) \o "." \o Dotted(Tail(b))

\* nl_addr2str of an AF_INET address: dotted quad, followed by "/prefixlen"
\* unless the prefix covers the whole address; "none" for an empty address.
nl_addr2str(a) ==
  IF Len(a.bytes) = 0 THEN "none"
  ELSE IF a.prefixlen = 8 * Len(a.bytes) THEN Dotted(a.bytes)
  ELSE Dotted(a.bytes) \o "/" \o ToString(a.prefixlen)

RouteDsts ==
  { NullAddr, Addr(<<>>, 0), Addr(<<10, 0, 0, 0>>, 8),
    Addr(<<192, 168, 1, 0>>, 24), Addr(<<10, 0, 0, 1>>, 32) }

RouteHops == UNION {[1..n -> {1, 2, 3}] : n \in 0..MaxHops}

\* cdst (lines 141-145).
route_dst(dst) ==
  IF dst.null \/ nl_addr_get_len(dst) = 0 THEN "default" ELSE nl_addr2str(dst)

\* An ifindex taken from the last next-hop.
route_ifindex_last(nh) == IF Len(nh) > 0 THEN nh[Len(nh)] ELSE -1

\* ifindex (lines 147-153).
route_ifindex(nh) == IF Len(nh) > 0 THEN nh[1] ELSE -1

NoReport == [sent |-> FALSE, dst |-> "", ifindex |-> 0]

InitRoute ==
  /\ Standalone("route", "route")
  /\ exc = NoExc
  /\ observer \in {"None", "obs"}
  /\ \E d \in RouteDsts, h \in RouteHops :
       loc = [fn |-> "observe_route_change", dst |-> d, nh |-> h,
              status |-> "entry", data |-> NoReport]

\* observe_route_change: data is the dictionary passed to route_change.
RouteStep ==
  /\ pc = "route"
  /\ loc.status = "entry"
  /\ \/ /\ ObsSuppressed
        /\ loc' = [loc EXCEPT !.status = "done"]
        /\ UNCHANGED <<exc, pyerr, call>>
     \/ /\ ~ObsSuppressed
        /\ \E o \in ObsOutcomes :
             /\ exc' = observe(o).exc
             /\ pyerr' = observe(o).pyerr
             /\ call' = observe(o).call
             /\ loc' = [loc EXCEPT
                  !.status = "done",
                  !.data = IF o = "nomem" THEN NoReport
                           ELSE [sent |-> TRUE, dst |-> route_dst(loc.dst),
                                 ifindex |-> route_ifindex(loc.nh)]]
  /\ UNCHANGED <<kind, observer, lerr, nl80211_id, sock, pc, frames, sret,
                 ids, scan_p, ret, ncalls, rt, fam>>

NextRoute == RouteStep

SpecRoute == InitRoute /\ [][NextRoute]_vars

(***************************************************************************)
(* nl80211_command_to_string on its own.  Commands lists the enumerators   *)
(* of the switch in the order of its case labels, which is the order of    *)
(* enum nl80211_commands: the enumerator at position i has the value       *)
(* i - 1.  cmd is the one-byte command of a generic netlink header.        *)
(***************************************************************************)
MaxCmd == 120   \* largest command code looked at

Commands ==
  <<
     "NL80211_CMD_UNSPEC",
     "NL80211_CMD_GET_WIPHY",
     "NL80211_CMD_SET_WIPHY",
     "NL80211_CMD_NEW_WIPHY",
     "NL80211_CMD_DEL_WIPHY",
     "NL80211_CMD_GET_INTERFACE",
     "NL80211_CMD_SET_INTERFACE",
     "NL80211_CMD_NEW_INTERFACE",
     "NL80211_CMD_DEL_INTERFACE",
     "NL80211_CMD_GET_KEY",
     "NL80211_CMD_SET_KEY",
     "NL80211_CMD_NEW_KEY",
     "NL80211_CMD_DEL_KEY",
     "NL80211_CMD_GET_BEACON",
     "NL80211_CMD_SET_BEACON",
     "NL80211_CMD_START_AP",
     "NL80211_CMD_STOP_AP",
     "NL80211_CMD_GET_STATION",
     "NL80211_CMD_SET_STATION",
     "NL80211_CMD_NEW_STATION",
     "NL80211_CMD_DEL_STATION",
     "NL80211_CMD_GET_MPATH",
     "NL80211_CMD_SET_MPATH",
     "NL80211_CMD_NEW_MPATH",
     "NL80211_CMD_DEL_MPATH",
     "NL80211_CMD_SET_BSS",
     "NL80211_CMD_SET_REG",
     "NL80211_CMD_REQ_SET_REG",
     "NL80211_CMD_GET_MESH_CONFIG",
     "NL80211_CMD_SET_MESH_CONFIG",
     "NL80211_CMD_SET_MGMT_EXTRA_IE",
     "NL80211_CMD_GET_REG",
     "NL80211_CMD_GET_SCAN",
     "NL80211_CMD_TRIGGER_SCAN",
     "NL80211_CMD_NEW_SCAN_RESULTS",
     "NL80211_CMD_SCAN_ABORTED",
     "NL80211_CMD_REG_CHANGE",
     "NL80211_CMD_AUTHENTICATE",
     "NL80211_CMD_ASSOCIATE",
     "NL80211_CMD_DEAUTHENTICATE",
     "NL80211_CMD_DISASSOCIATE",
     "NL80211_CMD_MICHAEL_MIC_FAILURE",
     "NL80211_CMD_REG_BEACON_HINT",
     "NL80211_CMD_JOIN_IBSS",
     "NL80211_CMD_LEAVE_IBSS",
     "NL80211_CMD_TESTMODE",
     "NL80211_CMD_CONNECT",
     "NL80211_CMD_ROAM",
     "NL80211_CMD_DISCONNECT",
     "NL80211_CMD_SET_WIPHY_NETNS",
     "NL80211_CMD_GET_SURVEY",
     "NL80211_CMD_NEW_SURVEY_RESULTS",
     "NL80211_CMD_SET_PMKSA",
     "NL80211_CMD_DEL_PMKSA",
     "NL80211_CMD_FLUSH_PMKSA",
     "NL80211_CMD_REMAIN_ON_CHANNEL",
     "NL80211_CMD_CANCEL_REMAIN_ON_CHANNEL",
     "NL80211_CMD_SET_TX_BITRATE_MASK",
     "NL80211_CMD_REGISTER_FRAME",
     "NL80211_CMD_FRAME",
     "NL80211_CMD_FRAME_TX_STATUS",
     "NL80211_CMD_SET_POWER_SAVE",
     "NL80211_CMD_GET_POWER_SAVE",
     "NL80211_CMD_SET_CQM",
     "NL80211_CMD_NOTIFY_CQM",
     "NL80211_CMD_SET_CHANNEL",
     "NL80211_CMD_SET_WDS_PEER",
     "NL80211_CMD_FRAME_WAIT_CANCEL",
     "NL80211_CMD_JOIN_MESH",
     "NL80211_CMD_LEAVE_MESH",
     "NL80211_CMD_UNPROT_DEAUTHENTICATE",
     "NL80211_CMD_UNPROT_DISASSOCIATE",
     "NL80211_CMD_NEW_PEER_CANDIDATE",
     "NL80211_CMD_GET_WOWLAN",
     "NL80211_CMD_SET_WOWLAN",
     "NL80211_CMD_START_SCHED_SCAN",
     "NL80211_CMD_STOP_SCHED_SCAN",
     "NL80211_CMD_SCHED_SCAN_RESULTS",
     "NL80211_CMD_SCHED_SCAN_STOPPED",
     "NL80211_CMD_SET_REKEY_OFFLOAD",
     "NL80211_CMD_PMKSA_CANDIDATE",
     "NL80211_CMD_TDLS_OPER",
     "NL80211_CMD_TDLS_MGMT",
     "NL80211_CMD_UNEXPECTED_FRAME",
     "NL80211_CMD_PROBE_CLIENT",
     "NL80211_CMD_REGISTER_BEACONS",
     "NL80211_CMD_UNEXPECTED_4ADDR_FRAME",
     "NL80211_CMD_SET_NOACK_MAP",
     "NL80211_CMD_CH_SWITCH_NOTIFY",
     "NL80211_CMD_START_P2P_DEVICE",
     "NL80211_CMD_STOP_P2P_DEVICE",
     "NL80211_CMD_CONN_FAILED",
     "NL80211_CMD_SET_MCAST_RATE",
     "NL80211_CMD_SET_MAC_ACL",
     "NL80211_CMD_RADAR_DETECT",
     "NL80211_CMD_GET_PROTOCOL_FEATURES",
     "NL80211_CMD_UPDATE_FT_IES",
     "NL80211_CMD_FT_EVENT",
     "NL80211_CMD_CRIT_PROTOCOL_START",
     "NL80211_CMD_CRIT_PROTOCOL_STOP",
     "NL80211_CMD_GET_COALESCE",
     "NL80211_CMD_SET_COALESCE",
     "NL80211_CMD_CHANNEL_SWITCH",
     "NL80211_CMD_VENDOR",
     "NL80211_CMD_SET_QOS_MAP"
  >>

\* return &#x[12]: the stringified enumerator from its 13th character on.
C2S_short(x) == SubSeq(x, 12, Len(x))
C2S(x) == SubSeq(x, 13, Len(x))

nl80211_command_to_string(cmd) ==
  IF cmd + 1 \in DOMAIN Commands THEN C2S(Commands[cmd + 1])
  ELSE "NL80211_CMD_UNKNOWN"

InitCmd ==
  /\ Standalone("command", "command")
  /\ exc = NoExc
  /\ observer = "None"
  /\ \E c \in 0..MaxCmd :
       loc = [fn |-> "nl80211_command_to_string", cmd |-> c,
              status |-> "entry", out |-> ""]

CmdStep ==
  /\ pc = "command"
  /\ loc.status = "entry"
  /\ loc' = [loc EXCEPT !.status = "done",
                        !.out = nl80211_command_to_string(loc.cmd)]
  /\ UNCHANGED <<kind, observer, exc, lerr, nl80211_id, sock, pyerr, pc,
                 frames, sret, ids, scan_p, call, ret, ncalls, rt, fam>>

NextCmd == CmdStep

SpecCmd == InitCmd /\ [][NextCmd]_vars

(***************************************************************************)
(* event_handler on one valid message, on its own.  The message has a      *)
(* command code and may carry an interface index.  loc.dump records the    *)
(* call of dump_scan_results (issued, its only_connected argument, whether *)
(* it returned NULL), loc.events the dictionaries passed to wlan_event.    *)
(***************************************************************************)
\* Command codes: NEW_INTERFACE, DEL_INTERFACE, TRIGGER_SCAN,
\* NEW_SCAN_RESULTS, ASSOCIATE, and one the switch does not know.
EventCodes == {7, 8, 33, 34, 38, 110}

\* The enumerator of a command code.
CmdName(c) == IF c + 1 \in DOMAIN Commands THEN Commands[c + 1] ELSE "?"

\* tb[NL80211_ATTR_IFINDEX]: absent, or a value.
EventIfs == {[has |-> FALSE, v |-> 0]} \cup {[has |-> TRUE, v |-> i] : i \in {0, 1, 3}}

\* What dump_scan_results may return when it does not return NULL.
DumpLists == ScanLists \ {NullList}

NoDump == [issued |-> FALSE, only_connected |-> FALSE, null |-> FALSE]

\* int ifidx = -1; if (tb[NL80211_ATTR_IFINDEX]) ifidx = nla_get_u32(...).
EventIfidx(a) == IF a.has THEN a.v ELSE -1

InitEvent ==
  /\ Standalone("event_handler", "event")
  /\ observer \in {"None", "obs"}
  /\ exc \in {NoExc, Exc("ObserverError", 0, 1)}
  /\ \E c \in EventCodes, a \in EventIfs :
       loc = [fn |-> "event_handler", cmd |-> c, attr |-> a,
              slot |-> exc, status |-> "entry", dump |-> NoDump,
              extra |-> NullList, events |-> <<>>, nomem |-> FALSE, r |-> 0]

\* event_handler up to the call of observe_wlan_event (lines 502-532).
EventDecode ==
  /\ pc = "event"
  /\ loc.status = "entry"
  /\ LET m == [ifindex |-> EventIfidx(loc.attr), cmd |-> CmdName(loc.cmd)]
         d == [issued |-> TRUE, only_connected |-> m.cmd \in DumpConnected,
               null |-> FALSE]
     IN IF NeedsDump(m)
        THEN \/ /\ loc' = [loc EXCEPT !.status = "done", !.r = NL_STOP,
                                      !.dump = [d EXCEPT !.null = TRUE]]
                /\ pyerr' = Exc("MemoryError", 0, 0)
             \/ /\ \E l \in DumpLists :
                     loc' = [loc EXCEPT !.status = "observe", !.dump = d,
                                        !.extra = l]
                /\ UNCHANGED pyerr
        ELSE /\ loc' = [loc EXCEPT !.status = "observe"]
             /\ UNCHANGED pyerr
  /\ UNCHANGED <<kind, observer, exc, lerr, nl80211_id, sock, pc, frames,
                 sret, ids, scan_p, call, ret, ncalls, rt, fam>>

\* r = observe_wlan_event(listener, ifidx, nl80211_command_to_string(cmd),
\* extra); return r (lines 534-536).
EventObserve ==
  /\ pc = "event"
  /\ loc.status = "observe"
  /\ \E o \in ObsOutcomes :
       /\ exc' = observe(o).exc
       /\ pyerr' = observe(o).pyerr
       /\ call' = observe(o).call
       /\ loc' = [loc EXCEPT
            !.status = "done",
            !.r = observe_wlan_event(o),
            !.nomem = ~ObsSuppressed /\ o = "nomem",
            !.events = IF ObsSuppressed \/ o = "nomem" THEN @
                       ELSE Append(@, [cmd |-> nl80211_command_to_string(loc.cmd),
                                       ifindex |-> EventIfidx(loc.attr),
                                       ssids |-> loc.extra])]
  /\ UNCHANGED <<kind, observer, lerr, nl80211_id, sock, pc, frames, sret,
                 ids, scan_p, ret, ncalls, rt, fam>>

NextEvent == EventDecode \/ EventObserve

SpecEvent == InitEvent /\ [][NextEvent]_vars

(***************************************************************************)
(* The call-scoped resources of the functions that build and send a        *)
(* request: the netlink messages msg and ssids, the short-lived socket sk  *)
(* and send_and_recv's callback set cb.  Each function is the list of its statements that touch one of      *)
(* them; a statement that can fail names the statement control goes to     *)
(* then (0: it cannot fail).  Statements:                                  *)
(*   alloc x   x = nlmsg_alloc() / nl_socket_alloc(); NULL on failure      *)
(*   use x     a call that reads or writes *x (genlmsg_put, NLA_PUT*,      *)
(*             genl_connect, nl_connect, nla_put_nested, rtnl_link_change) *)
(*   other     a step that touches no resource but can fail (PyList_New)   *)
(*   send      send_and_recv(sk, msg, ...): allocates its callback set cb, *)
(*             uses the socket and the message, and at out: puts cb and    *)
(*             frees the message                                           *)
(*   clear x   x = NULL                                                    *)
(*   free x    nlmsg_free(x) / nl_socket_free(x): nothing when x is NULL   *)
(*   ret       return                                                      *)
(* own: the function allocates the socket it sends on (otherwise it is the *)
(* listener's genl_sock).                                                  *)
(***************************************************************************)
I(op, x, fail) == [op |-> op, x |-> x, fail |-> fail]

\* nl80211_trigger_scan without its "msg = NULL".
ProgTriggerScanNoClear ==
  << I("alloc", "sk", 10), I("use", "sk", 10), I("alloc", "msg", 10),
     I("use", "msg", 10), I("alloc", "ssids", 10), I("use", "ssids", 10),
     I("use", "msg", 0), I("send", "msg", 0), I("other", "msg", 0),
     I("free", "msg", 0), I("free", "ssids", 0), I("free", "sk", 0),
     I("ret", "msg", 0) >>

\* nl80211_trigger_scan; statement 10 is the label nla_put_failure.
ProgTriggerScan ==
  << I("alloc", "sk", 10), I("use", "sk", 10), I("alloc", "msg", 10),
     I("use", "msg", 10), I("alloc", "ssids", 10), I("use", "ssids", 10),
     I("use", "msg", 0), I("send", "msg", 0), I("clear", "msg", 0),
     I("free", "msg", 0), I("free", "ssids", 0), I("free", "sk", 0),
     I("ret", "msg", 0) >>

\* dump_scan_results; statement 8 is the label nla_put_failure.
ProgDump ==
  << I("alloc", "sk", 8), I("use", "sk", 8), I("other", "msg", 8),
     I("alloc", "msg", 8), I("use", "msg", 8), I("send", "msg", 0),
     I("clear", "msg", 0), I("free", "msg", 0), I("free", "sk", 0),
     I("ret", "msg", 0) >>

\* nl_get_multicast_ids; statement 5 is the label nla_put_failure.
ProgMulticastIds ==
  << I("alloc", "msg", 6), I("use", "msg", 5), I("send", "msg", 0),
     I("clear", "msg", 0), I("free", "msg", 0), I("ret", "msg", 0) >>

\* listener_start from "msg = nlmsg_alloc()" on.
ProgStartDump ==
  << I("alloc", "msg", 4), I("use", "msg", 0), I("send", "msg", 0),
     I("ret", "msg", 0) >>

\* listener_set_link_flags / listener_unset_link_flags from nl_socket_alloc
\* on; statement 4 is the nl_socket_free of the nl_connect failure branch.
ProgLinkFlags ==
  << I("alloc", "sk", 5), I("use", "sk", 4), I("use", "sk", 0),
     I("free", "sk", 0), I("ret", "sk", 0) >>

Programs ==
  [trigger_scan |-> ProgTriggerScan, dump_scan_results |-> ProgDump,
   nl_get_multicast_ids |-> ProgMulticastIds, listener_start |-> ProgStartDump,
   set_link_flags |-> ProgLinkFlags, unset_link_flags |-> ProgLinkFlags]

OwnSocket == {"trigger_scan", "dump_scan_results", "set_link_flags",
              "unset_link_flags"}

Resources == {"msg", "ssids", "sk", "cb"}

\* A resource: the local pointer (ptr: not NULL), and of the object it was
\* given: how often it was allocated and freed, and whether it was used
\* after it was freed.
NoRes == [ptr |-> FALSE, allocs |-> 0, frees |-> 0, uaf |-> FALSE]

Use(r) == [r EXCEPT !.uaf = @ \/ (r.ptr /\ r.frees > 0)]

InitRes ==
  /\ Standalone("resources", "res")
  /\ observer = "None"
  /\ exc = NoExc
  /\ \E f \in DOMAIN Programs :
       loc = [fn |-> f, at |-> 1, res |-> [x \in Resources |-> NoRes],
              status |-> "run"]

\* One statement of the function.
ResStep ==
  /\ pc = "res"
  /\ loc.status = "run"
  /\ LET i == Programs[loc.fn][loc.at]
         r == loc.res[i.x]
         Go(n, rs) == loc' = [loc EXCEPT !.at = n, !.res = rs]
         Same == loc.res
     IN CASE i.op = "alloc" ->
               \/ Go(loc.at + 1,
                     [Same EXCEPT ![i.x] = [r EXCEPT !.ptr = TRUE, !.allocs = @ + 1]])
               \/ Go(i.fail, Same)
          [] i.op = "use" ->
               \/ Go(loc.at + 1, [Same EXCEPT ![i.x] = Use(r)])
               \/ i.fail # 0 /\ Go(i.fail, [Same EXCEPT ![i.x] = Use(r)])
          [] i.op = "other" ->
               \/ Go(loc.at + 1, Same)
               \/ i.fail # 0 /\ Go(i.fail, Same)
          [] i.op = "send" ->
               \/ \* nl_cb_alloc fails: goto out
                  Go(loc.at + 1,
                     [Same EXCEPT !["msg"] = [r EXCEPT !.frees = @ + 1]])
               \/ \* nl_send_auto, the receive loop, nl_cb_put at out:
                  Go(loc.at + 1,
                     [Same EXCEPT
                        !["cb"] = [@ EXCEPT !.allocs = @ + 1, !.frees = @ + 1],
                        !["msg"] = [Use(r) EXCEPT !.frees = @ + 1],
                        !["sk"] = IF loc.fn \in OwnSocket THEN Use(@) ELSE @])
          [] i.op = "clear" ->
               Go(loc.at + 1, [Same EXCEPT ![i.x] = [r EXCEPT !.ptr = FALSE]])
          [] i.op = "free" ->
               Go(loc.at + 1,
                  [Same EXCEPT ![i.x] = IF r.ptr THEN [r EXCEPT !.frees = @ + 1]
                                        ELSE r])
          [] i.op = "ret" ->
               loc' = [loc EXCEPT !.status = "done"]
  /\ UNCHANGED <<kind, observer, exc, lerr, nl80211_id, sock, pyerr, pc,
                 frames, sret, ids, scan_p, call, ret, ncalls, rt, fam>>

NextRes == ResStep

SpecRes == InitRes /\ [][NextRes]_vars

(***************************************************************************)
(* listener_start's interface dump on its own, for termination: the kernel *)
(* has queued its whole answer on genl_sock, a finite sequence of          *)
(* datagrams of VALID messages whose last message is DONE, and sends       *)
(* nothing else.  genl_sock is blocking: with the queue empty nl_recvmsgs  *)
(* does not return.  loc.cur is what is left of the datagram nl_recvmsgs   *)
(* is working through, loc.err is send_and_recv's err.                     *)
(***************************************************************************)
MaxDgrams == 2   \* datagrams of the answer
MaxPer == 3      \* messages in one datagram

\* Datagrams of n VALID messages, and the same closed by DONE.
ValidDgram(n) == [i \in 1..n |-> "VALID"]
DoneDgram(n) == Append(ValidDgram(n), "DONE")

\* The kernel's answers: datagrams of VALID messages, then one ending in DONE.
DumpAnswers ==
  { Append(q, DoneDgram(n)) :
      q \in UNION {[1..k -> {ValidDgram(j) : j \in 1..MaxPer}] : k \in 0..(MaxDgrams - 1)},
      n \in 0..(MaxPer - 1) }

InitLive ==
  /\ Standalone("start_dump", "live")
  /\ observer \in {"None", "obs"}
  /\ exc = NoExc
  /\ \E q \in DumpAnswers :
       loc = [fn |-> "listener_start", queue |-> q, cur |-> <<>>, err |-> 1,
              status |-> "loop", stopped |-> FALSE, result |-> "none"]

\* while (err > 0) res = nl_recvmsgs(sock, cb): the next datagram is read.
LiveRecv ==
  /\ pc = "live"
  /\ loc.status = "loop"
  /\ loc.cur = <<>>
  /\ loc.err > 0
  /\ loc.queue # <<>>
  /\ loc' = [loc EXCEPT !.cur = Head(loc.queue), !.queue = Tail(loc.queue)]
  /\ UNCHANGED <<kind, observer, exc, lerr, nl80211_id, sock, pyerr, pc,
                 frames, sret, ids, scan_p, call, ret, ncalls, rt, fam>>

\* The callback for the datagram's next message: event_handler, which
\* returns what observe_wlan_event returns, or finish_handler.  NL_STOP
\* ends nl_recvmsgs: the rest of the datagram is dropped.
LiveMsg ==
  /\ pc = "live"
  /\ loc.status = "loop"
  /\ loc.cur # <<>>
  /\ IF Head(loc.cur) = "VALID"
     THEN \E o \in ObsOutcomes :
            /\ exc' = observe(o).exc
            /\ pyerr' = observe(o).pyerr
            /\ call' = observe(o).call
            /\ loc' = [loc EXCEPT
                 !.cur = IF observe_wlan_event(o) = NL_STOP THEN <<>>
                         ELSE Tail(@),
                 !.stopped = @ \/ (observe_wlan_event(o) = NL_STOP
                                   /\ Len(loc.cur) > 1)]
     ELSE /\ loc' = [loc EXCEPT !.err = finish_handler.err, !.cur = Tail(@)]
          /\ UNCHANGED <<exc, pyerr, call>>
  /\ UNCHANGED <<kind, observer, lerr, nl80211_id, sock, pc, frames, sret,
                 ids, scan_p, ret, ncalls, rt, fam>>

\* The loop ends; return maybe_restore(listener).
LiveReturn ==
  /\ pc = "live"
  /\ loc.status = "loop"
  /\ loc.cur = <<>>
  /\ loc.err <= 0
  /\ loc' = [loc EXCEPT !.status = "returned", !.result = maybe_restore.result]
  /\ exc' = maybe_restore.exc
  /\ pyerr' = NoExc
  /\ UNCHANGED <<kind, observer, lerr, nl80211_id, sock, pc, frames, sret,
                 ids, scan_p, call, ret, ncalls, rt, fam>>

NextLive == LiveRecv \/ LiveMsg \/ LiveReturn

\* The code runs on as long as it is not blocked in a receive.
SpecLive ==
  /\ InitLive
  /\ [][NextLive]_vars
  /\ WF_vars(LiveRecv) /\ WF_vars(LiveMsg) /\ WF_vars(LiveReturn)

(***************************************************************************)
(* Properties.                                                             *)
(***************************************************************************)
Delivering == {"start", "data_ready"}

\* The observer raised in call c: its last invocation left an exception.
Raised(c) == c.log # <<>> /\ c.log[Len(c.log)] # NoExc

\* No invocation of the observer follows one that raised.
RaiseIsLast(c) ==
  \A i \in 1..Len(c.log) : c.log[i] # NoExc => i = Len(c.log)

\* C1: once the observer has raised during a start() or data_ready() call,
\* it is not invoked again in that call, and the call returns NULL with
\* exactly the exception the observer raised.
C1_FaultContainment ==
  /\ RaiseIsLast(call)
  /\ RaiseIsLast(ret.c)
  /\ (ret.c.fn \in Delivering /\ Raised(ret.c)) =>
       /\ ret.result = "NULL"
       /\ ret.pyerr = ret.c.log[Len(ret.c.log)]

\* The observer raised on the second event of a call, a later event of the
\* call was dropped, and the call has returned.
C1_Witness ==
  /\ ret.c.fn \in Delivering
  /\ Len(ret.c.log) = 2
  /\ Raised(ret.c)
  /\ ret.c.dropped

C2_Step ==
  exc # NoExc =>
    /\ call'.fn = call.fn => call'.log = call.log
    /\ \/ exc' = exc
       \/ /\ exc' = NoExc
          /\ pc \in {"st_restore", "dr_restore", "rt_observe"}
          /\ pc' = "idle"

\* C2: while the fault slot is occupied, no step invokes the observer and
\* none changes the slot, except maybe_restore's return, which empties it.
C2_SingleSlot == [][C2_Step]_vars

\* An event arrived while the slot was occupied and was dropped.
C2_Witness == exc # NoExc /\ call.dropped

\* C3: between calls the fault slot is empty; a call that captured a fault
\* returns NULL with that fault, and an observer's exception is reported
\* only by the call in which it was raised.
C3_CallBoundary ==
  /\ pc = "idle" => exc = NoExc
  /\ ret.c.fault # NoExc => ret.result = "NULL" /\ ret.pyerr = ret.c.fault
  /\ ret.pyerr.typ = "ObserverError" => ret.pyerr.val[1] = ret.c.n

\* A second call captured a fault and has returned it.
C3_Witness ==
  /\ pc = "idle"
  /\ ret.c.n = 2
  /\ ret.c.fn = "data_ready"
  /\ ret.c.fault # NoExc

\* The send_and_recv activations on the stack.
Requests == {frames[i] : i \in {j \in 1..Len(frames) : ~IsEvents(frames[j])}}

\* sret is what a send_and_recv returned.
AfterRequest == pc \in {"st_mcast_ret", "st_restore", "ts_ret", "dump_ret"}

\* C4: after a successful send, send_and_recv returns 0 only when an ACK or
\* DONE was processed, returns the kernel's code when an ERROR was
\* processed, hands every other valid message to the valid handler, and
\* hands none over once the request has settled.
C4_Classification ==
  /\ \A f \in Requests :
       /\ ~f.unhandled
       /\ ~f.late
       /\ f.settled = "ERROR" => f.err = f.code /\ f.left = 0
  /\ AfterRequest =>
       /\ (sret.sent /\ sret.err = 0) => sret.settled \in {"ACK", "DONE"}
       /\ sret.settled = "ERROR" => sret.err = sret.code
       /\ ~sret.unhandled
       /\ ~sret.late

\* C5: send_and_recv returns only a result <= 0, and a receive that returns
\* nothing while the request is pending ends the call (with an error): it
\* does not stay in the receive loop.
C5_NoPendingReturn ==
  /\ AfterRequest => sret.err <= 0
  /\ \A f \in Requests : ~(f.lastRecv = "empty" /\ f.err > 0)

\* C6: a start() or data_ready() call that captured no fault and whose
\* netlink exchange failed with a code returns NULL with an error carrying
\* that code.
C6_ErrorSurfaced ==
  (ret.c.fn \in Delivering /\ ret.c.fault = NoExc /\ ret.c.exch < 0) =>
    /\ ret.result = "NULL"
    /\ ret.pyerr.typ = "RuntimeError"
    /\ ret.pyerr.val[1] = ret.c.exch

C7_Stops(c) ==
  (c.fn = "start" /\ c.fail # "none") =>
    ~c.subscribed /\ ~c.dumped /\ c.log = <<>>

\* C7: when a set-up step of the Wi-Fi start() fails, start() does not go
\* on to subscribe, to dump the interfaces or to invoke the observer, and
\* it returns NULL with an error set.
C7_StartFailsFatally ==
  kind = "nl80211" =>
    /\ C7_Stops(call)
    /\ C7_Stops(ret.c)
    /\ (ret.c.fn = "start" /\ ret.c.fail # "none") =>
         ret.result = "NULL" /\ ret.pyerr # NoExc

C8_Unset(c) ==
  (c.fn = "start" /\ (c.subscribed \/ c.fail = "nl_socket_add_memberships")) =>
    /\ ~c.found.mlme => c.passed.mlme_id = c.altpassed.mlme_id
    /\ ~c.found.scan => c.passed.scan_id = c.altpassed.scan_id

\* C8: an id whose group the GETFAMILY reply does not name reaches
\* nl_socket_add_memberships with one fixed value, whatever the stack held
\* when start() was entered.
C8_UnsetSentinel == kind = "nl80211" => C8_Unset(call) /\ C8_Unset(ret.c)

\* The payload is the literal, with or without its terminator.
IsExactly(name, lit) == name = lit \/ name = SubSeq(lit, 1, Len(lit) - 1)

SetBy(id) == CHOOSE e \in {fam.entries[k] : k \in 1..fam.i} : e.id = id

\* C9: family_handler takes scan_id (mlme_id) only from an entry whose name
\* payload is exactly "scan" ("mlme"), and no entry sets both ids.
C9_ExactMatch ==
  kind = "family" =>
    /\ fam.res.scan_id # 0 => IsExactly(SetBy(fam.res.scan_id).name, STR_scan)
    /\ fam.res.mlme_id # 0 => IsExactly(SetBy(fam.res.mlme_id).name, STR_mlme)
    /\ fam.res.scan_id # 0 => fam.res.scan_id # fam.res.mlme_id

\* C10: trigger_scan returns None only when its request was sent and
\* acknowledged, and it never puts anything in the fault slot.
C10_TriggerScan ==
  /\ (ret.c.fn = "trigger_scan" /\ ret.result = "None") =>
       ret.c.sent /\ ret.c.acked
  /\ call.fn = "trigger_scan" => exc = NoExc

\* The length byte of the element at offset pos, as an unsigned value.
IeLen(pos) == loc.ies[pos + 2]

\* C11: nl80211_get_ie reads no byte outside the buffer, and what it
\* returns is "not found" or an element that lies wholly inside the buffer.
C11_BoundsSafety ==
  kind = "get_ie" =>
    /\ ~loc.oob
    /\ loc.status # "fault"
    /\ loc.status = "found" =>
         /\ 0 <= loc.pos
         /\ loc.pos + 2 + IeLen(loc.pos) <= Len(loc.ies)

C20_Turn ==
  (kind = "get_ie" /\ loc.status = "loop" /\ loc'.status = "loop") =>
    /\ loc'.pos = loc.pos + 2 + IeLen(loc.pos)
    /\ loc'.pos > loc.pos

\* C20: a turn of nl80211_get_ie's loop that does not return advances the
\* position by 2 + the element's length byte read as 0..255, so the
\* position strictly increases.
C20_Progress == [][C20_Turn]_vars

\* The offset of the first element with id 0 when the buffer is read as a
\* sequence of (id, length 0..255, payload) elements; -1 when there is none.
RECURSIVE FirstSsid(_, _)
FirstSsid(ies, pos) ==
  IF pos + 2 > Len(ies) \/ pos + 2 + ies[pos + 2] > Len(ies) THEN -1
  ELSE IF ies[pos + 1] = 0 THEN pos
  ELSE FirstSsid(ies, pos + 2 + ies[pos + 2])

Payload(ies, pos) == SubSeq(ies, pos + 3, pos + 2 + ies[pos + 2])

\* The handler is given a BSS and extract_ssid does not return early.
Extracts ==
  /\ kind = "scan_handler"
  /\ loc.status # "entry"
  /\ loc.ifindex >= 0
  /\ loc.bss.present
  /\ loc.bss.hasStatus \/ ~loc.p.only_connected

\* C12: for a BSS whose information elements contain an id-0 element, the
\* SSID appended is exactly the payload of the first id-0 element, its
\* length the element's length byte, whatever the bytes are.
C12_VerbatimSsid ==
  (/\ Extracts
   /\ loc.bss.hasIes
   /\ FirstSsid(loc.bss.ies, 0) >= 0
   /\ loc.alloc
   /\ ~loc.before.null)
  => /\ loc.status = "done"
     /\ ~loc.p.ssid_list.null
     /\ LET l == loc.p.ssid_list.list
            ssid == Payload(loc.bss.ies, FirstSsid(loc.bss.ies, 0))
        IN /\ Len(l) = Len(loc.before.list) + 1
           /\ l[Len(l)][1] = ssid
           /\ Len(l[Len(l)][1]) = loc.bss.ies[FirstSsid(loc.bss.ies, 0) + 2]

\* The handler skipped the BSS: nothing was appended and the dump goes on.
Skipped ==
  /\ loc.status = "done"
  /\ loc.p.ssid_list = loc.before
  /\ ~loc.before.null => loc.ret = NL_SKIP

\* C13: a BSS without an information-elements attribute is skipped, and so
\* is, in a dump restricted to connected BSSes, a BSS without a status
\* attribute; a skipped BSS does not abort the dump.
C13_Skipping ==
  (/\ kind = "scan_handler"
   /\ loc.status # "entry"
   /\ loc.ifindex >= 0
   /\ loc.bss.present)
  => /\ ~loc.bss.hasIes => Skipped
     /\ (loc.p.only_connected /\ ~loc.bss.hasStatus) => Skipped

\* C14: no two requests in progress use the same socket, and the BSS dump
\* that event_handler issues during start()'s interface dump or during
\* data_ready() uses neither the request socket nor the event socket.
C14_NoPipelining ==
  kind = "nl80211" =>
    /\ \A i, j \in 1..Len(frames) : i < j => frames[i].sk # frames[j].sk
    /\ \A i \in 1..Len(frames) :
         frames[i].req = "GET_SCAN" =>
           frames[i].sk \notin {"genl_sock", "event_sock"}

C14_Witness ==
  /\ Len(frames) = 2
  /\ frames[1].req = "GET_INTERFACE"
  /\ frames[1].sent
  /\ Top.req = "GET_SCAN"
  /\ Top.sent
  /\ Top.lastRecv = "datagram"

\* C16: after the Wi-Fi listener is torn down, both sockets allocated at
\* its construction (the event socket and the request socket) are freed.
C16_SocketsFreed ==
  (kind = "nl80211" /\ pc = "freed") =>
    /\ sock.event = "freed"
    /\ sock.genl = "freed"

\* C17: the dst reported to route_change is "default" exactly when the
\* route has no destination or one of zero length, and the destination's
\* text otherwise; the ifindex reported is the first next-hop's, however
\* many there are, and -1 when there is none.
C17_RouteRendering ==
  (kind = "route" /\ loc.data.sent) =>
    /\ loc.data.dst = "default" <=> (loc.dst.null \/ loc.dst.bytes = <<>>)
    /\ loc.data.dst # "default" => loc.data.dst = nl_addr2str(loc.dst)
    /\ Len(loc.nh) = 0 => loc.data.ifindex = -1
    /\ Len(loc.nh) > 0 => loc.data.ifindex = loc.nh[1]

C17_Witness ==
  /\ kind = "route"
  /\ loc.data.sent
  /\ Len(loc.nh) = 2
  /\ loc.nh[1] # loc.nh[2]
  /\ loc.data.ifindex = loc.nh[1]
  /\ loc.data.dst = "192.168.1.0/24"

\* C18: a recognised command code is rendered as its enumerator's name
\* without the prefix "NL80211_CMD_", an unrecognised one as
\* "NL80211_CMD_UNKNOWN".
C18_CommandNames ==
  (kind = "command" /\ loc.status = "done") =>
    IF loc.cmd + 1 \in DOMAIN Commands
    THEN "NL80211_CMD_" \o loc.out = Commands[loc.cmd + 1]
    ELSE loc.out = "NL80211_CMD_UNKNOWN"

C18_Witness ==
  /\ kind = "command"
  /\ loc.status = "done"
  /\ loc.cmd + 1 \in DOMAIN Commands
  /\ Commands[loc.cmd + 1] = "NL80211_CMD_NEW_SCAN_RESULTS"
  /\ loc.out = "NEW_SCAN_RESULTS"

\* C15: a set_link_flags / unset_link_flags call whose interface index is
\* not in the live link cache fails with the "link not found" error, and
\* allocates no socket, connects none and sends no request.
C15_NotFoundNoIo ==
  kind = "rtnetlink" =>
    \A i \in DOMAIN rt.hist :
      ~rt.hist[i].found =>
        /\ rt.hist[i].result = "NULL"
        /\ rt.hist[i].pyerr = Exc("RuntimeError", 0, 1)
        /\ ~rt.hist[i].alloc
        /\ ~rt.hist[i].connected
        /\ ~rt.hist[i].sent
        /\ rt.hist[i].req = NoRequest

C15_Witness ==
  /\ kind = "rtnetlink"
  /\ rt.link_cache = "set"
  /\ Len(rt.hist) = 2
  /\ rt.hist[1].fn = "set_link_flags" /\ ~rt.hist[1].found
  /\ rt.hist[2].fn = "unset_link_flags" /\ ~rt.hist[2].found
  /\ rt.hist[2].result = "NULL"

\* Two set_link_flags calls in a row with the same arguments, the first of
\* which succeeded.
SetTwice ==
  /\ kind = "rtnetlink"
  /\ Len(rt.hist) = 2
  /\ rt.hist[1].fn = "set_link_flags"
  /\ rt.hist[2].fn = "set_link_flags"
  /\ rt.hist[2].n = rt.hist[1].n + 1
  /\ rt.hist[2].ifindex = rt.hist[1].ifindex
  /\ rt.hist[2].flags = rt.hist[1].flags
  /\ rt.hist[1].result = "None"

\* C19: the second of two identical set_link_flags calls in a row finds the
\* interface, requests the same flag value as the first (the old flags OR
\* the mask), and returns None unless its socket or the kernel fails.
C19_Idempotent ==
  SetTwice =>
    /\ rt.hist[1].req.ifi_flags = rt.hist[1].old \cup rt.hist[1].flags
    /\ rt.hist[2].found
    /\ rt.hist[2].sent => rt.hist[2].req = rt.hist[1].req
    /\ rt.hist[2].fail = "none" =>
         rt.hist[2].result = "None" /\ rt.hist[2].pyerr = NoExc
    /\ rt.hist[2].fail \in {"none", "nl_socket_alloc", "nl_connect",
                            "rtnl_link_change"}

C19_Witness ==
  /\ SetTwice
  /\ rt.hist[1].old = {"IFF_UP"}
  /\ rt.hist[1].flags = {"IFF_PROMISC"}
  /\ rt.hist[2].result = "None"
  /\ rt.hist[2].req.ifi_flags = {"IFF_UP", "IFF_PROMISC"}

\* A step that is a set_link_flags / unset_link_flags call with a link
\* cache present.
LinkFlagsCall == kind = "rtnetlink" /\ rt'.hist # rt.hist

C21_Step == LinkFlagsCall => rt'.link.l_flags = rt.link.l_flags

\* C21: a set_link_flags / unset_link_flags call leaves the flags of the
\* link stored in the link cache as they were, whether or not the
\* link-change request succeeds.
C21_CacheUntouched == [][C21_Step]_vars

\* C22: a start() or data_ready() call during which a BSS dump ended with
\* a kernel ERROR or a failed receive returns NULL with an error set.
C22_DumpErrorSurfaced ==
  (ret.c.fn \in Delivering /\ ret.c.dumpfailed) =>
    /\ ret.result = "NULL"
    /\ ret.pyerr # NoExc

\* The handler has returned, and neither the dump nor the building of the
\* event ran out of memory.
Decoded ==
  /\ kind = "event_handler"
  /\ loc.status = "done"
  /\ ~loc.dump.null
  /\ ~loc.nomem

\* The interface index the message carries, -1 when it carries none.
IfindexOf == IF loc.attr.has THEN loc.attr.v ELSE -1

\* C23: event_handler issues a BSS dump only for an interface index > 0,
\* unrestricted for NEW_SCAN_RESULTS, restricted for ASSOCIATE and
\* NEW_INTERFACE, and for no other command; with the fault slot empty and
\* an observer set the observer gets exactly one event for the message,
\* with its command name, its interface index (-1 when absent) and, when a
\* dump was issued, the dump's list.
C23_EventDecoding ==
  (kind = "event_handler" /\ loc.status # "entry") =>
    /\ loc.dump.issued <=>
         /\ IfindexOf > 0
         /\ CmdName(loc.cmd) \in {"NL80211_CMD_NEW_SCAN_RESULTS",
                                  "NL80211_CMD_ASSOCIATE",
                                  "NL80211_CMD_NEW_INTERFACE"}
    /\ loc.dump.issued =>
         (loc.dump.only_connected <=>
            CmdName(loc.cmd) \in {"NL80211_CMD_ASSOCIATE",
                                  "NL80211_CMD_NEW_INTERFACE"})
    /\ (Decoded /\ loc.slot = NoExc /\ observer # "None") =>
         /\ Len(loc.events) = 1
         /\ IF loc.cmd + 1 \in DOMAIN Commands
            THEN "NL80211_CMD_" \o loc.events[1].cmd = CmdName(loc.cmd)
            ELSE loc.events[1].cmd = "NL80211_CMD_UNKNOWN"
         /\ loc.events[1].ifindex = IfindexOf
         /\ loc.dump.issued => loc.events[1].ssids = loc.extra /\ ~loc.extra.null
         /\ ~loc.dump.issued => loc.events[1].ssids.null
    /\ (loc.slot # NoExc \/ observer = "None") => loc.events = <<>>

C23_Witness ==
  /\ Decoded
  /\ CmdName(loc.cmd) = "NL80211_CMD_ASSOCIATE"
  /\ loc.dump.issued /\ loc.dump.only_connected
  /\ Len(loc.events) = 1
  /\ loc.events[1].cmd = "ASSOCIATE"
  /\ loc.events[1].ifindex = 3
  /\ loc.events[1].ssids.list # <<>>

\* C24: in trigger_scan, the BSS dump, nl_get_multicast_ids, start()'s
\* interface dump and set/unset_link_flags no netlink message and no
\* short-lived socket is freed twice or used after it was freed or handed
\* to send_and_recv, and when the function returns each one it allocated
\* has been freed exactly once.
C24_ReleasedOnce ==
  kind = "resources" =>
    \A x \in Resources :
      /\ loc.res[x].frees <= loc.res[x].allocs
      /\ ~loc.res[x].uaf
      /\ loc.status = "done" => loc.res[x].frees = loc.res[x].allocs

C24_Witness ==
  /\ kind = "resources"
  /\ loc.fn = "trigger_scan"
  /\ loc.status = "done"
  /\ \A x \in Resources : loc.res[x].allocs = 1 /\ loc.res[x].frees = 1
  /\ ~loc.res["msg"].ptr
  /\ loc.res["ssids"].ptr

\* C25: when the kernel answers start()'s interface dump with finitely
\* many datagrams ending with DONE, start() eventually returns, also when
\* event_handler returned NL_STOP and so dropped the rest of a datagram.
C25_StartReturns ==
  (kind = "start_dump" /\ observer = "obs") => <>(loc.status = "returned")

\* The call that returned last was start() or data_ready() and left
\* maybe_restore's "random netlink error: %d" in the error indicator.
ReportsNetlinkError ==
  /\ kind = "nl80211"
  /\ ret.c.fn \in Delivering
  /\ ret.pyerr.typ = "RuntimeError"
  /\ ret.pyerr.val[2] = 0

\* C26: a start() or data_ready() call reports a netlink error code only
\* if its own netlink exchange failed: a code left in listener->err by an
\* earlier call is not reported by a call in which no error occurred.
C26_ErrorOfSameCall ==
  ReportsNetlinkError => ret.c.exch < 0

====
